---- MODULE Spec2Model ----
(***************************************************************************)
(* The agentic orchestrator of gnc-brand-mcp (services/gemini.ts) and the  *)
(* /chat/stream route around it (routes/chat.ts), as a state machine.      *)
(*                                                                         *)
(* One step of the model is one run of JavaScript between two awaits: the  *)
(* event loop runs a continuation and all the microtasks it queues to the  *)
(* end before a timer or an I/O completion gets its turn.                  *)
(*                                                                         *)
(* JavaScript objects are records with the same keys ('text' in p is       *)
(* "text" \in DOMAIN p), strings are strings, arrays are sequences.        *)
(***************************************************************************)
EXTENDS Integers, Sequences, FiniteSets, Bags, TLC

VARIABLES
    pc,                 \* where orchestrate() is suspended
    history,            \* Content[] handed to orchestrate and mutated in place
    turn,               \* the for-loop variable of orchestrate
    lastToolSignature,  \* repeat detection
    repeatCount,
    allToolCalls,       \* audit trail, ToolCallInfo[]
    chunks,             \* parts the open LLM stream has still to deliver
    candidate,          \* parts of the final candidate of the open LLM stream
    textChunks,         \* text forwarded from the open stream
    functionCalls,      \* function-call parts of the current turn, in order
    executions,         \* one entry per function call: pending or settled
    events,             \* every event orchestrate handed to emit, in order
    result,             \* what orchestrate returned or threw, or NoResult
    frames,             \* frames written to the HTTP response, in order
    resEnded,           \* res.writableEnded
    heartbeat,          \* the heartbeat's interval timer
    pings,              \* the :ping frames written to the response
    aborted,            \* streamController.signal.aborted
    listening,          \* the open LLM call was made before the signal tripped
    clientGone,         \* the flag set by req.on('close')
    hpc,                \* the route handler: "idle", "awaiting", "done"
    saved,              \* histories handed to setSession by the handler
    fuel,               \* what the LLM may still ask for in this request
    now,                \* Date.now(), in ticks
    sessions,           \* the session store: the Map's entries in its order
    uuids,              \* how many ids randomUUID has handed out
    inflight,           \* the sessionIds of the chat requests under way, a bag
    ret,                \* what the last operation on the session store did
    docs,               \* the cache collections of the document store
    cacheRet,           \* what the last operation on the cache did
    trimIn,             \* a history handed to trimHistory by itself
    trimOut,            \* what trimHistory returned for it
    monitorRunning,     \* the scheduler's two guards
    prefetchRunning,
    runs,               \* per job, its executions in progress
    trigger,            \* what the last firing of a job's timer did
    startup,            \* whether the 10 s startup trigger is still to fire
    ended,              \* how the last execution that finished came to its end
    campaignPosts,      \* the campaign_posts collection
    heap,               \* the Content[] arrays of the process, by reference
    reqs,               \* the chat requests that share the session store
    apiKey,             \* whether process.env.GEMINI_API_KEY is set
    model,              \* _model: 0 for null, else the instance
    created             \* the model instances created so far

chatVars == <<pc, history, turn, lastToolSignature, repeatCount, allToolCalls,
              chunks, candidate, textChunks, functionCalls, executions, events,
              result, frames, resEnded, aborted, listening, clientGone, hpc,
              saved, fuel, heartbeat, pings>>

storeVars == <<sessions, uuids, inflight, ret>>

cacheVars == <<docs, cacheRet>>

trimVars == <<trimIn, trimOut>>

\* the state of the components that neither the chat request, the session
\* store nor the cache touches
schedVars ==
    <<monitorRunning, prefetchRunning, runs, trigger, startup, ended,
      campaignPosts>>

modelVars == <<apiKey, model, created>>

sharedVars == <<heap, reqs, modelVars>>

restVars == <<trimVars, schedVars, sharedVars>>

vars == <<chatVars, now, storeVars, cacheVars, restVars>>

\* what a step of one chat request leaves alone
elsewhere == <<now, storeVars, cacheVars, restVars>>

orchVars == <<pc, history, turn, lastToolSignature, repeatCount, allToolCalls,
              chunks, candidate, textChunks, functionCalls, executions,
              events, result, listening>>

-----------------------------------------------------------------------------
(* Program constants *)

MAX_TURNS == 10
MAX_REPEATS == 2

(* Bounds of the model: how much the LLM may ask for in one request.  A    *)
(* "short" request makes at most MaxCalls function calls, several in one   *)
(* turn if it likes; a "long" request makes one function call per turn and *)
(* so can run into MAX_TURNS; a "pairs" request asks for two tools at a    *)
(* time, in either order, long enough to be stopped as a repeat loop.  In  *)
(* a short request at most MaxVaried responses are other than a bare       *)
(* function call or the plain final answer, in a long request one.         *)
MaxCalls == 4
MaxVaried == 1

NoResult == [none |-> TRUE]

-----------------------------------------------------------------------------
(* Sequence and string helpers *)

RECURSIVE JoinWith(_, _)
\* Array.prototype.join(sep) on an array of strings
JoinWith(seq, sep) ==
    IF seq = <<>> THEN ""
    ELSE IF Len(seq) = 1 THEN seq[1]
    ELSE seq[1] \o sep \o JoinWith(Tail(seq), sep)

\* s.includes(t) for strings
Includes(s, t) ==
    \E i \in 1..(Len(s) - Len(t) + 1) : SubSeq(s, i, i + Len(t) - 1) = t

Count(seq, x) == Cardinality({i \in DOMAIN seq : seq[i] = x})

\* the elements of seq, each once, in order of first appearance
RECURSIVE Dedup(_)
Dedup(seq) ==
    IF seq = <<>> THEN <<>>
    ELSE LET init == Dedup(SubSeq(seq, 1, Len(seq) - 1))
             last == seq[Len(seq)]
         IN IF \E i \in DOMAIN init : init[i] = last THEN init
            ELSE Append(init, last)

-----------------------------------------------------------------------------
(* Tool labels and the dispatch table *)

TOOL_LABELS ==
    [get_profile |-> "Fetching Instagram profile",
     get_user_posts |-> "Fetching recent posts",
     get_user_reels |-> "Fetching recent reels",
     get_hashtag_posts |-> "Fetching hashtag posts",
     get_hashtag_stats |-> "Analysing hashtag statistics",
     check_post |-> "Verifying post",
     get_top_posts_by_reach |-> "Ranking posts by reach",
     get_brand_mentions |-> "Scanning brand mentions",
     find_top_influencers |-> "Ranking influencers by engagement",
     check_user_topic_posts |-> "Scanning creator content",
     discover_influencers |-> "Searching Google for influencers",
     expand_network |-> "Expanding network via Instagram recommendations",
     get_mention_network |-> "Mining peer mention network",
     register_campaign_post |-> "Registering campaign posts",
     monitor_campaign_post |-> "Monitoring campaign post",
     get_campaign_compliance_report |-> "Generating compliance report",
     evaluate_collaboration_performance |-> "Evaluating collaboration performance",
     get_campaign_performance_summary |-> "Generating campaign performance summary",
     get_continuation_recommendation |-> "Computing continuation recommendation",
     get_engagement_timeline |-> "Loading engagement timeline",
     mine_competitor_hashtags |-> "Mining competitor hashtags"]

(* TOOL_LABELS, DISPATCH and the accumulator of nameCounts are object       *)
(* literals: obj[name] finds the object's own keys and then the members of *)
(* Object.prototype.  These are the inherited members the model follows.   *)
ObjectPrototype == {"constructor", "toString"}

Inherited(name) == name \in ObjectPrototype

\* String(f) of the built-in function found under an inherited name
NativeFunction(name) ==
    IF name = "constructor" THEN "function Object() { [native code] }"
    ELSE "function " \o name \o "() { [native code] }"

\* TOOL_LABELS[name] ?? name
toolLabel(name) ==
    IF name \in DOMAIN TOOL_LABELS THEN TOOL_LABELS[name]
    ELSE IF Inherited(name) THEN NativeFunction(name)
    ELSE name

thinkingMessage(t, prevToolCount) ==
    IF t = 1 THEN "Analysing your request..."
    ELSE IF prevToolCount > 0 THEN "Processing tool results..."
    ELSE "Thinking..."

\* name -> handler
DISPATCH ==
    [get_profile |-> "executeGetProfile",
     get_user_posts |-> "executeGetUserPosts",
     get_user_reels |-> "executeGetUserReels",
     get_hashtag_posts |-> "executeGetHashtagPosts",
     get_hashtag_stats |-> "executeGetHashtagStats",
     check_post |-> "executeCheckPost",
     get_top_posts_by_reach |-> "getTopPostsByReach",
     get_brand_mentions |-> "getBrandMentions",
     find_top_influencers |-> "findTopInfluencers",
     check_user_topic_posts |-> "checkUserTopicPosts",
     discover_influencers |-> "executeDiscoverInfluencers",
     expand_network |-> "executeExpandNetwork",
     get_mention_network |-> "getMentionNetwork",
     register_campaign_post |-> "registerCampaignPosts",
     monitor_campaign_post |-> "monitorCampaignPost",
     get_campaign_compliance_report |-> "getCampaignComplianceReport",
     evaluate_collaboration_performance |-> "evaluateCollaborationPerformance",
     get_campaign_performance_summary |-> "getCampaignPerformanceSummary",
     get_continuation_recommendation |-> "getContinuationRecommendation",
     get_engagement_timeline |-> "getEngagementTimeline",
     mine_competitor_hashtags |-> "mineCompetitorHashtags"]

\* Handlers whose first statement is Schemas.<tool>.parse(raw): a ZodError is
\* thrown before the handler touches the store or an actor.
ParsingHandlers ==
    {"executeGetProfile", "executeGetUserPosts", "executeGetUserReels",
     "executeGetHashtagPosts", "executeGetHashtagStats", "executeCheckPost",
     "executeDiscoverInfluencers", "executeExpandNetwork",
     "registerCampaignPosts", "monitorCampaignPost",
     "getCampaignComplianceReport", "evaluateCollaborationPerformance",
     "getContinuationRecommendation", "getEngagementTimeline",
     "mineCompetitorHashtags", "getCampaignPerformanceSummary"}

\* Handlers typed to receive already-validated arguments: they never look at
\* the schema (the REST routes run validate() first, the dispatcher does not).
RawHandlers ==
    {"getTopPostsByReach", "getBrandMentions", "findTopInfluencers",
     "checkUserTopicPosts", "getMentionNetwork"}

-----------------------------------------------------------------------------
(* Parts, turns and events *)

TextPart(s) == [text |-> s]
ThoughtPart(s) == [text |-> s, thought |-> TRUE]
CallPart(name, args) == [functionCall |-> [name |-> name, args |-> args]]
ResponsePart(name, payload) ==
    [functionResponse |-> [name |-> name, response |-> payload]]

\* (part as { thought?: boolean }).thought
IsThought(p) == "thought" \in DOMAIN p /\ p.thought
HasText(p) == "text" \in DOMAIN p
HasCall(p) == "functionCall" \in DOMAIN p
HasResponse(p) == "functionResponse" \in DOMAIN p

UserTurn(parts) == [role |-> "user", parts |-> parts]
ModelTurn(parts) == [role |-> "model", parts |-> parts]

Thinking(t, message) == [type |-> "thinking", turn |-> t, message |-> message]
TextChunk(s) == [type |-> "text_chunk", text |-> s]
ToolStart(tools, labels) ==
    [type |-> "tool_start", tools |-> tools, labels |-> labels]
ToolDone(info) == [type |-> "tool_done", info |-> info]
\* an answer event that leaves the audit trail behind
AnswerWithoutTrail(text, toolCalls) ==
    [type |-> "answer", text |-> text, toolCalls |-> <<>>]

Answer(text, toolCalls) ==
    [type |-> "answer", text |-> text, toolCalls |-> toolCalls]

\* the same join without the thought filter
VisibleTextAll(parts) ==
    LET vis == SelectSeq(parts, LAMBDA p : "text" \in DOMAIN p)
    IN JoinWith([i \in DOMAIN vis |-> vis[i].text], "")

\* parts.filter(p => 'text' in p && !p.thought).map(p => p.text).join('')
VisibleText(parts) ==
    LET vis == SelectSeq(parts, LAMBDA p : HasText(p) /\ ~IsThought(p))
    IN JoinWith([i \in DOMAIN vis |-> vis[i].text], "")

\* a || b for strings: the empty string is falsy
OrElse(a, b) == IF a # "" THEN a ELSE b

-----------------------------------------------------------------------------
(* The dispatcher: executeTool *)

\* `Unknown tool: ${name}`
UnknownToolMessage(name) == "Unknown tool: " \o name

\* executeTool, !fn branch: runs to its return inside the call itself
UnknownToolValue(name) ==
    LET info == [name |-> name, label |-> toolLabel(name), durationMs |-> 0,
                 error |-> UnknownToolMessage(name)]
    IN [result |-> [error |-> UnknownToolMessage(name)], info |-> info]

\* A payload is a record, or Str(s) for a string: typeof result === 'object'
IsObject(payload) == "str" \notin DOMAIN payload

\* executeTool, the handler returned `payload` after `ms` milliseconds
FulfilledValue(name, payload, ms) ==
    LET info == IF IsObject(payload) /\ "cacheHit" \in DOMAIN payload
                THEN [name |-> name, label |-> toolLabel(name),
                      durationMs |-> ms, cacheHit |-> payload.cacheHit]
                ELSE [name |-> name, label |-> toolLabel(name),
                      durationMs |-> ms]
    IN [result |-> payload, info |-> info]

\* executeTool, the handler threw an Error with `message`
CaughtValue(name, message, ms) ==
    LET info == [name |-> name, label |-> toolLabel(name), durationMs |-> ms,
                 error |-> message]
    IN [result |-> [error |-> message], info |-> info]

Pending == [status |-> "pending"]
Settled(value, touched) ==
    [status |-> "fulfilled", value |-> value, touched |-> touched]

\* What a handler can do with a call.  Each outcome is what it returned or
\* the message of what it threw, and whether it got as far as the store or an
\* actor (touched).  Arguments are "valid" or "invalid" against the schema.
SuccessPayloads(name) ==
    IF name = "get_profile"
    THEN {[username |-> "gnc", cacheHit |-> TRUE]}
    ELSE {[username |-> "gnc", matchCount |-> 0]}

FailureMessages(name) ==
    IF name = "get_profile" THEN {"Profile not found: gnc"}
    ELSE {"connection closed"}

ZodMessage == "Invalid input"
TypeErrorMessage == "Cannot read properties of undefined"

\* Date.now() - start: a handler that throws has run longer than one that
\* returns, so that the durations of a batch differ
DurationsMs(ok) == IF ok THEN {5} ELSE {8}

\* Schemas.<tool>.parse(raw) throws: the handler is over before its first
\* await, and before it has touched anything
FailsParse(name, args) ==
    /\ name \in DOMAIN DISPATCH
    /\ DISPATCH[name] \in ParsingHandlers
    /\ args = "invalid"

\* a handler that got past its first statement
HandlerOutcomes(name, args) ==
    LET ran == {[ok |-> TRUE, payload |-> p, touched |-> TRUE] :
                    p \in SuccessPayloads(name)}
               \cup {[ok |-> FALSE, message |-> m, touched |-> TRUE] :
                    m \in FailureMessages(name)}
    IN IF args = "invalid"
       THEN ran \cup {[ok |-> FALSE, message |-> TypeErrorMessage,
                       touched |-> FALSE]}
       ELSE ran

\* the value executeTool resolves with for outcome o
OutcomeValue(name, o, ms) ==
    IF o.ok THEN FulfilledValue(name, o.payload, ms)
    ELSE CaughtValue(name, o.message, ms)

\* What the built-in found under an inherited name returns when it is called
\* as fn(args): Object(args) is args itself, Object.prototype.toString with
\* no receiver is the string "[object Undefined]".
InheritedResult(name, args) ==
    IF name = "constructor" THEN [args |-> args]
    ELSE [str |-> "[object Undefined]"]

\* 'error' in result: a TypeError when result is not an object
InThrows(payload) == ~IsObject(payload)
IsErrorPayload(payload) == IsObject(payload) /\ "error" \in DOMAIN payload

InOperatorMessage ==
    "Cannot use 'in' operator to search for 'error' in [object Undefined]"

-----------------------------------------------------------------------------
(* History trimming *)

\* The payload fields posts, reels and results hold Arr(items) for an array
\* and Str(s) for a string, so that Array.isArray can be told from the key.
Arr(items) == [items |-> items]
Str(s) == [str |-> s]
IsArrayField(resp, f) == f \in DOMAIN resp /\ "items" \in DOMAIN resp[f]

\* { ...resp, [f]: v }
WithField(resp, f, v) ==
    [k \in DOMAIN resp \cup {f} |-> IF k = f THEN v ELSE resp[k]]

\* the map() callback of trimHistory on the payload of a function response
trimResponse(resp) ==
    IF IsArrayField(resp, "posts") /\ Len(resp.posts.items) > 3
    THEN WithField(
            WithField(resp, "posts",
                Str("[" \o ToString(Len(resp.posts.items))
                        \o " posts - trimmed for context]")),
            "totalFetched",
            IF "totalFetched" \in DOMAIN resp THEN resp.totalFetched
            ELSE Len(resp.posts.items))
    ELSE IF IsArrayField(resp, "reels") /\ Len(resp.reels.items) > 3
    THEN WithField(
            WithField(resp, "reels",
                Str("[" \o ToString(Len(resp.reels.items))
                        \o " reels - trimmed for context]")),
            "totalFetched",
            IF "totalFetched" \in DOMAIN resp THEN resp.totalFetched
            ELSE Len(resp.reels.items))
    ELSE IF IsArrayField(resp, "results") /\ Len(resp.results.items) > 5
    THEN WithField(
            WithField(resp, "results", Arr(SubSeq(resp.results.items, 1, 5))),
            "_trimmed", TRUE)
    ELSE resp

trimPart(p) ==
    IF HasResponse(p)
    THEN ResponsePart(p.functionResponse.name,
                      trimResponse(p.functionResponse.response))
    ELSE p

\* trimHistory without its filter
trimHistoryUnfiltered(h) ==
    [i \in DOMAIN h |->
        [role |-> h[i].role,
         parts |-> [j \in DOMAIN h[i].parts |-> trimPart(h[i].parts[j])]]]

trimHistory(h) ==
    [i \in DOMAIN h |->
        LET kept == SelectSeq(h[i].parts, LAMBDA p : "thought" \notin DOMAIN p)
        IN [role |-> h[i].role,
            parts |-> [j \in DOMAIN kept |-> trimPart(kept[j])]]]

-----------------------------------------------------------------------------
(* orchestrate: the pieces of one turn *)

\* The tool names the catalogue uses, in the order Array.prototype.sort puts
\* them (by UTF-16 code unit).
NameOrder ==
    <<"check_user_topic_posts", "get_profile", "no_such_tool", "toString">>

RECURSIVE Repeat(_, _)
Repeat(x, n) == IF n = 0 THEN <<>> ELSE <<x>> \o Repeat(x, n - 1)

RECURSIVE SortFrom(_, _)
SortFrom(names, i) ==
    IF i > Len(NameOrder) THEN <<>>
    ELSE Repeat(NameOrder[i], Count(names, NameOrder[i]))
            \o SortFrom(names, i + 1)

\* a signature that forgets to sort
SignatureUnsorted(toolNames) == JoinWith(toolNames, ",")

\* [...toolNames].sort().join(',')
Signature(toolNames) == JoinWith(SortFrom(toolNames, 1), ",")

ToolNames(calls) == [i \in DOMAIN calls |-> calls[i].functionCall.name]

\* nameCounts[name] of a name the accumulator does not inherit
nameCounts(calls, name) == Count(ToolNames(calls), name)

\* nameCounts[name] > 1.  Under an inherited name (acc[n] ?? 0) is the
\* built-in function, the sum a string, and its comparison with 1 false.
Batched(calls, name) == ~Inherited(name) /\ nameCounts(calls, name) > 1

\* Object.keys(nameCounts): first-appearance order
groupedNames(calls) == Dedup(ToolNames(calls))

\* `${toolLabel(n)} x${N}` (the source writes the sign U+00D7 for x)
BatchLabel(name, n) == toolLabel(name) \o " x" \o ToString(n)

groupedLabels(calls) ==
    LET g == groupedNames(calls)
    IN [i \in DOMAIN g |->
            IF Batched(calls, g[i])
            THEN BatchLabel(g[i], nameCounts(calls, g[i]))
            ELSE toolLabel(g[i])]

\* candidate.content.parts.filter('functionCall' in p)
ExtractCalls(parts) == SelectSeq(parts, HasCall)

\* executeTool is handed emit only for a name that occurs once in the turn
EmitsOwnDone(calls, i) == ~Batched(calls, calls[i].functionCall.name)

\* fn = DISPATCH[name] is a built-in of Object.prototype
IsInherited(call) ==
    /\ call.functionCall.name \notin DOMAIN DISPATCH
    /\ Inherited(call.functionCall.name)

\* !fn
IsUnknown(call) ==
    /\ call.functionCall.name \notin DOMAIN DISPATCH
    /\ ~Inherited(call.functionCall.name)
IsRejectedByParse(call) ==
    FailsParse(call.functionCall.name, call.functionCall.args)

(* functionCalls.map(fc => executeTool(...)): an unknown tool is settled   *)
(* inside the call; a built-in that returns at once and a handler that     *)
(* throws on its first statement are settled by the microtasks that        *)
(* follow, before any timer or I/O; the other handlers are now in flight.  *)
Dispatch(calls) ==
    [i \in DOMAIN calls |->
        IF IsUnknown(calls[i])
        THEN Settled(UnknownToolValue(calls[i].functionCall.name), FALSE)
        ELSE IF IsInherited(calls[i])
        THEN Settled(FulfilledValue(calls[i].functionCall.name,
                        InheritedResult(calls[i].functionCall.name,
                                        calls[i].functionCall.args), 0),
                     FALSE)
        ELSE IF IsRejectedByParse(calls[i])
        THEN Settled(CaughtValue(calls[i].functionCall.name, ZodMessage, 0),
                     FALSE)
        ELSE Pending]

\* the tool_done events of these calls: the unknown tools in call order,
\* then the built-ins and the parse failures in call order
DispatchEvents(calls) ==
    LET all == [i \in DOMAIN calls |-> i]
        unk == SelectSeq(all, LAMBDA i : IsUnknown(calls[i])
                                         /\ EmitsOwnDone(calls, i))
        bad == SelectSeq(all, LAMBDA i : (IsInherited(calls[i])
                                            \/ IsRejectedByParse(calls[i]))
                                         /\ EmitsOwnDone(calls, i))
        idx == unk \o bad
    IN [k \in DOMAIN idx |-> ToolDone(Dispatch(calls)[idx[k]].value.info)]

\* batchStats[name] once every execution has been folded in
RECURSIVE SumMs(_)
SumMs(infos) ==
    IF infos = <<>> THEN 0 ELSE Head(infos).durationMs + SumMs(Tail(infos))

batchStats(calls, execs, name) ==
    LET mine == SelectSeq([i \in DOMAIN calls |-> i],
                    LAMBDA i : calls[i].functionCall.name = name)
        infos == [k \in DOMAIN mine |-> execs[mine[k]].value.info]
        failed(x) == "error" \in DOMAIN x /\ x.error # ""
    IN [succeeded |-> Len(SelectSeq(infos, LAMBDA x : ~failed(x))),
        errors |-> Len(SelectSeq(infos, failed)),
        totalMs |-> SumMs(infos),
        cacheHits |-> Len(SelectSeq(infos,
                        LAMBDA x : "cacheHit" \in DOMAIN x /\ x.cacheHit))]

\* Math.round(a / b) for a >= 0, b > 0
RoundDiv(a, b) == (2 * a + b) \div (2 * b)

\* `${s.errors}/${total} failed`
FailedOf(k, n) == ToString(k) \o "/" \o ToString(n) \o " failed"

\* the synthetic tool_done info of a batched name
BatchInfo(name, s) ==
    LET total == s.succeeded + s.errors
        avgMs == IF total > 0 THEN RoundDiv(s.totalMs, total) ELSE 0
        base == [name |-> name, label |-> BatchLabel(name, total),
                 durationMs |-> avgMs]
        withHit == IF s.cacheHits > 0
                   THEN WithField(base, "cacheHit", s.cacheHits = total)
                   ELSE base
    IN IF s.errors > 0
       THEN WithField(withHit, "error", FailedOf(s.errors, total))
       ELSE withHit

\* one tool_done per batched name, in the order batchStats got its keys
BatchEvents(calls, execs) ==
    LET batched == SelectSeq(groupedNames(calls),
                        LAMBDA n : Batched(calls, n))
    IN [k \in DOMAIN batched |->
            ToolDone(BatchInfo(batched[k],
                               batchStats(calls, execs, batched[k])))]

responseParts(calls, execs) ==
    [i \in DOMAIN calls |->
        ResponsePart(calls[i].functionCall.name, execs[i].value.result)]

\* executions.every(e => ... 'error' in e.value.result): every() stops at
\* the first execution that did not fail
allFailed(execs) ==
    \A i \in DOMAIN execs : IsErrorPayload(execs[i].value.result)

\* the same test throws: it reaches a result that is not an object
allFailedThrows(execs) ==
    \E i \in DOMAIN execs :
        /\ InThrows(execs[i].value.result)
        /\ \A j \in 1..(i - 1) : IsErrorPayload(execs[j].value.result)

\* (the source writes a dash U+2014 where this text has " - ")
RepeatLoopText ==
    "I was unable to retrieve the requested data after multiple attempts. "
    \o "The posts for these users may not be cached yet - try calling "
    \o "get_user_posts or get_user_reels for each user first, "
    \o "then retry the analysis."

NoResponseText == "I was unable to generate a response. Please try again."

MaxTurnsText ==
    "Reached maximum tool call depth. Here is what I found so far."

AllFailedHeader ==
    "I encountered errors with all tool calls and cannot proceed:"

\* `${name}: ${msg}`
ErrorLine(name, msg) == name \o ": " \o msg

\* the answer of the all-failed short-circuit ("\n" is written |)
AllFailedText(calls, execs) ==
    LET errors == [i \in DOMAIN calls |->
                     ErrorLine(calls[i].functionCall.name,
                               execs[i].value.result.error)]
        shown == SubSeq(errors, 1, IF Len(errors) < 3 THEN Len(errors) ELSE 3)
    IN AllFailedHeader \o "|" \o JoinWith(shown, "|")
         \o (IF Len(errors) > 3
             THEN "|...and " \o ToString(Len(errors) - 3) \o " more"
             ELSE "")

\* history.filter(h => h.role === 'model').pop(), then its non-thought text
LastModelText(h) ==
    LET models == SelectSeq(h, LAMBDA e : e.role = "model")
    IN IF models = <<>> THEN "" ELSE VisibleText(models[Len(models)].parts)

-----------------------------------------------------------------------------
(* What the LLM can answer.  A response is the parts its stream delivers,  *)
(* one per chunk, and the parts of the final candidate.                    *)

Hello == "Hello."
Plan == "[plan]"

Response(stream, final) == [stream |-> stream, final |-> final]

GetProfile(args) == CallPart("get_profile", args)
TopicPosts(args) == CallPart("check_user_topic_posts", args)
NoSuchTool == CallPart("no_such_tool", "valid")
ToStringCall == CallPart("toString", "valid")

\* one function call and nothing else
PlainCalls ==
    {Response(<<>>, <<c>>) : c \in {GetProfile("valid"), TopicPosts("valid")}}

\* the plain final answer
PlainFinals == {Response(<<TextPart(Hello)>>, <<TextPart(Hello)>>)}

VariedFinals ==
    {Response(<<ThoughtPart(Plan), TextPart(Hello)>>,
              <<ThoughtPart(Plan), TextPart(Hello)>>),
     Response(<<TextPart("Hel"), TextPart("lo.")>>, <<TextPart(Hello)>>),
     Response(<<ThoughtPart(Plan)>>, <<ThoughtPart(Plan)>>),
     Response(<<>>, <<ThoughtPart(Plan), TextPart(Hello)>>),
     Response(<<TextPart("")>>, <<TextPart("")>>),
     Response(<<TextPart(Hello)>>, <<>>),
     Response(<<>>, <<>>)}

\* one function call dressed with thought and text, or with bad arguments,
\* or to a tool that does not exist
VariedSingleCalls ==
    {Response(<<ThoughtPart(Plan), TextPart(Hello)>>,
              <<ThoughtPart(Plan), TextPart(Hello), GetProfile("valid")>>),
     Response(<<ThoughtPart(Plan), TopicPosts("valid")>>,
              <<ThoughtPart(Plan), TopicPosts("valid")>>),
     Response(<<>>, <<GetProfile("invalid")>>),
     Response(<<>>, <<TopicPosts("invalid")>>),
     Response(<<>>, <<NoSuchTool>>),
     Response(<<>>, <<ToStringCall>>)}

\* two tools at a time
PairCalls ==
    {Response(<<>>, calls) : calls \in
        {<<GetProfile("valid"), TopicPosts("valid")>>,
         <<TopicPosts("valid"), GetProfile("valid")>>,
         <<TopicPosts("valid"), TopicPosts("valid")>>}}

\* several function calls in one turn
MultiCalls ==
    PairCalls \cup {Response(<<>>, calls) : calls \in
        {<<TopicPosts("valid"), TopicPosts("valid"), GetProfile("valid")>>,
         <<GetProfile("valid"), GetProfile("valid")>>,
         <<GetProfile("valid"), NoSuchTool>>,
         <<ToStringCall, ToStringCall>>,
         <<NoSuchTool, NoSuchTool, NoSuchTool, NoSuchTool>>}}

Responses ==
    PlainCalls \cup PlainFinals \cup VariedFinals \cup VariedSingleCalls
        \cup MultiCalls

NumCalls(r) == Len(ExtractCalls(r.final))
IsPlain(r) == r \in PlainCalls \cup PlainFinals

\* the responses a request of each kind draws from
Menu(kind) ==
    IF kind = "short" THEN Responses
    ELSE IF kind = "long" THEN Responses \ MultiCalls
    ELSE PlainFinals \cup PairCalls

ShortFuel == [calls |-> MaxCalls, varied |-> MaxVaried, menu |-> "short"]
LongFuel == [calls |-> MAX_TURNS, varied |-> 1, menu |-> "long"]
LongPlainFuel == [calls |-> MAX_TURNS, varied |-> 0, menu |-> "long"]
PairFuel == [calls |-> 2 * (MAX_REPEATS + 1), varied |-> MAX_REPEATS + 1,
             menu |-> "pairs"]

Affordable(r) ==
    /\ r \in Menu(fuel.menu)
    /\ NumCalls(r) <= fuel.calls
    /\ IsPlain(r) \/ fuel.varied > 0

Spend(r) ==
    [fuel EXCEPT !.calls = @ - NumCalls(r),
                 !.varied = IF IsPlain(r) THEN @ ELSE @ - 1]

-----------------------------------------------------------------------------
(* The session store (services/session_store.ts) *)

(* The store's two limits, scaled: the source has 500 sessions and 30      *)
(* minutes.  Time is counted in ticks up to MaxTime; randomUUID hands out  *)
(* at most MaxUuids ids; at most MaxInflight requests are under way.       *)
MAX_SESSIONS == 2
SESSION_TTL == 2
MaxTime == 3
MaxUuids == 3
MaxInflight == 2

\* getSession's null
Null == [null |-> TRUE]

\* the k-th id of randomUUID; no two calls return the same
Uuid(k) == "u" \o ToString(k)
Issued(n) == {Uuid(k) : k \in 1..n}

\* ids a client can make up: well-formed, and never handed out by randomUUID
Fabricated == {"c1"}

\* the histories a finished request hands to setSession
Histories == {<<"turn">>}

Keys(ss) == {ss[i].id : i \in DOMAIN ss}
IndexOf(ss, id) == CHOOSE i \in DOMAIN ss : ss[i].id = id
Without(ss, k) == SubSeq(ss, 1, k - 1) \o SubSeq(ss, k + 1, Len(ss))

\* now - session.updatedAt > SESSION_TTL
Expired(session, t) == t - session.updatedAt > SESSION_TTL

evictExpired(ss, t) == SelectSeq(ss, LAMBDA session : ~Expired(session, t))

\* an evictOldest that finds nothing to delete
evictNone(ss) == ss

\* an evictOldest that deletes the entry inserted first
evictFirst(ss) == IF ss = <<>> THEN ss ELSE Tail(ss)

\* the first entry, in the Map's order, of the least updatedAt
evictOldest(ss) ==
    IF ss = <<>> THEN ss
    ELSE LET oldest == CHOOSE i \in DOMAIN ss :
                        /\ \A j \in DOMAIN ss : ss[i].updatedAt <= ss[j].updatedAt
                        /\ \A j \in 1..(i - 1) : ss[i].updatedAt < ss[j].updatedAt
         IN Without(ss, oldest)

\* createSession with the id randomUUID returned
createSession(ss, t, id) ==
    LET room == IF Len(ss) >= MAX_SESSIONS
                THEN evictOldest(evictExpired(ss, t)) ELSE ss
    IN Append(room, [id |-> id, history |-> <<>>, createdAt |-> t,
                     updatedAt |-> t])

\* what getSession returns
getSession(ss, t, id) ==
    IF id \notin Keys(ss) THEN Null
    ELSE IF Expired(ss[IndexOf(ss, id)], t) THEN Null
    ELSE [history |-> ss[IndexOf(ss, id)].history]

\* a getSession that leaves updatedAt as it was
getSessionReads(ss, t, id) ==
    IF id \in Keys(ss) /\ Expired(ss[IndexOf(ss, id)], t)
    THEN Without(ss, IndexOf(ss, id)) ELSE ss

\* the store getSession leaves behind
getSessionTouches(ss, t, id) ==
    IF id \notin Keys(ss) THEN ss
    ELSE IF Expired(ss[IndexOf(ss, id)], t) THEN Without(ss, IndexOf(ss, id))
    ELSE [ss EXCEPT ![IndexOf(ss, id)].updatedAt = t]

setSession(ss, t, id, h) ==
    IF id \in Keys(ss)
    THEN [ss EXCEPT ![IndexOf(ss, id)].history = h,
                    ![IndexOf(ss, id)].updatedAt = t]
    ELSE LET room == IF Len(ss) >= MAX_SESSIONS THEN evictOldest(ss) ELSE ss
         IN Append(room, [id |-> id, history |-> h, createdAt |-> t,
                          updatedAt |-> t])

deleteSession(ss, id) ==
    IF id \in Keys(ss) THEN Without(ss, IndexOf(ss, id)) ELSE ss

\* a handler that keeps the id the client sent
servedAsAsked(supplied, got, fresh) == IF supplied # "" THEN supplied ELSE fresh

\* the handler's sessionId: if (!history) sessionId = createSession()
served(supplied, got, fresh) == IF got = Null THEN fresh ELSE supplied

\* the process has just started: an empty store
NoSessions ==
    /\ now = 0
    /\ sessions = <<>>
    /\ uuids = 0
    /\ inflight = EmptyBag
    /\ ret = [op |-> "none"]

-----------------------------------------------------------------------------
(* The cache in the document store: writeCache, cacheFirst and the cached    *)
(* tools.  A document is a record of its fields; a collection is a set of   *)
(* documents.  There is one user, one hashtag and one post.                 *)

Collections ==
    {"ig_profiles", "ig_posts", "ig_reels", "ig_hashtag_posts",
     "ig_hashtag_posts_meta", "ig_hashtag_stats"}

(* TTL.<KIND> in ticks: the source's 6 hours for posts and reels become 1  *)
(* tick, its 12 hours for the hashtag collections and its 24 hours for     *)
(* profiles 2.                                                             *)
TTL(coll) == IF coll \in {"ig_posts", "ig_reels"} THEN 1 ELSE 2

\* a filter of equalities matches a document
Matches(d, q) == \A f \in DOMAIN q : f \in DOMAIN d /\ d[f] = q[f]

\* cachedAt: { $gt: new Date(Date.now() - TTL) }
FreshAt(d, coll, t) == d.cachedAt > t - TTL(coll)

\* find(q with the cachedAt filter)
FindFresh(all, coll, q, t) ==
    {d \in all[coll] : Matches(d, q) /\ FreshAt(d, coll, t)}

\* find(q)
FindAny(all, coll, q) == {d \in all[coll] : Matches(d, q)}

\* $set: the fields of f replace or join those of d
SetFields(d, f) ==
    [k \in DOMAIN d \cup DOMAIN f |-> IF k \in DOMAIN f THEN f[k] ELSE d[k]]

\* updateOne(q, { $set: f }, { upsert: true }) on one collection
updateOne(set, q, f) ==
    IF \E d \in set : Matches(d, q)
    THEN LET d == CHOOSE x \in set : Matches(x, q)
         IN (set \ {d}) \cup {SetFields(d, f)}
    ELSE set \cup {SetFields(q, f)}

\* writeCache(collection, query, data) at time t
writeCache(all, coll, q, data, t) ==
    [all EXCEPT ![coll] = updateOne(@, q, SetFields(data, [cachedAt |-> t]))]

User == "gnc"
Hashtag == "gnc"
PostUrl == "https://www.instagram.com/p/p1/"

\* what the actors return, transformed
Profile == [username |-> User, followersCount |-> 10]
Post == [postId |-> "p1", username |-> User, url |-> PostUrl]
HashtagPost == [postId |-> "p1", username |-> User, url |-> PostUrl,
                sourceHashtag |-> Hashtag]
Meta == [hashtag |-> Hashtag, totalFetched |-> 1]
Stats == [hashtag |-> Hashtag, totalPostCount |-> 1]

\* payloads handed to writeCache for the profile of User: data is any record
Payloads ==
    {Profile, [username |-> User, fullName |-> "GNC"]}

\* the result of a cached tool: whether it was a hit, when it read, and the
\* stored documents it was built from
Hit(tool, coll, from) ==
    [tool |-> tool, cacheHit |-> TRUE, at |-> now, coll |-> coll,
     from |-> from]
Miss(tool) == [tool |-> tool, cacheHit |-> FALSE, at |-> now]

\* the rejection of a write by the document store
WriteRejected == "MongoNetworkError: connection closed"

\* an awaited write that rejected: the actor's items were fetched and the
\* tool's promise rejects with the store's error
Rejects(tool) ==
    [tool |-> tool, error |-> WriteRejected, writeFailed |-> TRUE, at |-> now]

EmptyCache ==
    /\ docs = [coll \in Collections |-> {}]
    /\ cacheRet = [tool |-> "none"]

-----------------------------------------------------------------------------
(* The /chat/stream handler around orchestrate *)

Message == "hi"
SessionId == "sid-1"

Connected == [type |-> "connected", sessionId |-> SessionId]
SessionFrame == [type |-> "session", sessionId |-> SessionId]
ErrorFrame(msg) == [type |-> "error", message |-> msg]

TimeoutMessage == "Request timed out after 180s"

\* POST /chat: the JSON body built from what orchestrate returned
RestResponse(returned) ==
    [response |-> returned.text, sessionId |-> SessionId,
     toolCalls |-> returned.toolCalls]
LlmErrorMessage == "fetch failed"

\* the heartbeat's timer left as it is
keepInterval(timer) == timer

\* clearInterval(heartbeat)
clearInterval(timer) == "cleared"

\* a send that writes whether or not the response has ended
sendAlways(written, evs) == written \o evs

\* send: if (!res.writableEnded) res.write(...)
send(written, evs) == IF resEnded THEN written ELSE written \o evs

\* a catch that writes nothing
catchSilently(written, msg) == written

\* a catch that goes on to confirm the session
catchThenSession(written, msg) ==
    Append(Append(written, ErrorFrame(msg)), SessionFrame)

\* catch (err): if (!res.writableEnded) res.write(error frame)
catchError(written, msg) ==
    IF resEnded THEN written ELSE Append(written, ErrorFrame(msg))

(* The tail every step of orchestrate shares.  evs are the events the step  *)
(* emitted, newPc where it stopped, out the text it returned or the message *)
(* of what it threw.  When orchestrate settles while the handler still      *)
(* awaits the race, the handler runs on to res.end() in the same step.      *)
OrchestrateStep(evs, newPc, hist, atc, out) ==
    /\ pc' = newPc
    /\ listening' = IF newPc = "awaitStream" THEN ~aborted ELSE listening
    /\ history' = hist
    /\ allToolCalls' = atc
    /\ events' = events \o evs
    /\ result' = IF newPc = "returned" THEN [text |-> out, toolCalls |-> atc]
                 ELSE IF newPc = "threw" THEN [error |-> out]
                 ELSE result
    /\ IF newPc = "returned" /\ hpc = "awaiting"
       THEN /\ frames' = IF clientGone THEN send(frames, evs)
                         ELSE Append(send(frames, evs), SessionFrame)
            /\ saved' = IF clientGone THEN saved
                        ELSE Append(saved, trimHistory(hist))
            /\ heartbeat' = clearInterval(heartbeat)
            /\ resEnded' = TRUE
            /\ hpc' = "done"
       ELSE IF newPc = "threw" /\ hpc = "awaiting"
       THEN /\ frames' = catchError(send(frames, evs), out)
            /\ heartbeat' = clearInterval(heartbeat)
            /\ resEnded' = TRUE
            /\ hpc' = "done"
            /\ saved' = saved
       ELSE /\ frames' = send(frames, evs)
            /\ UNCHANGED <<resEnded, hpc, saved, heartbeat>>
    /\ pings' = pings

(* The head of the for loop with loop variable t: the next turn's thinking  *)
(* event and the call of generateContentStream, or, at MAX_TURNS, the exit  *)
(* below the loop.                                                          *)
LoopHead(evs, t, hist, atc) ==
    IF t < MAX_TURNS
    THEN OrchestrateStep(
            Append(evs, Thinking(t + 1, thinkingMessage(t + 1, Len(atc)))),
            "awaitStream", hist, atc, "")
    ELSE LET text == OrElse(LastModelText(hist), MaxTurnsText)
         IN OrchestrateStep(Append(evs, Answer(text, atc)), "returned",
                            hist, atc, text)

\* trimHistory not called by itself
NotTrimming ==
    /\ trimIn = <<>>
    /\ trimOut = <<>>

Jobs == {"monitorActivePosts", "prefetchGNCHashtags"}

\* registered campaign posts, and executions of one job followed
MaxPosts == 2
MaxRuns == 2

\* a campaign post as registerCampaignPosts inserts it
Registered == [status |-> "live", marked |-> FALSE]

\* startScheduler has been called: no job runs, the startup trigger is set
Scheduled ==
    /\ monitorRunning = FALSE
    /\ prefetchRunning = FALSE
    /\ runs = [job \in Jobs |-> <<>>]
    /\ trigger = [job |-> "none"]
    /\ startup = TRUE
    /\ ended = "never"
    /\ campaignPosts = [id \in 1..MaxPosts |-> Registered]

\* the chat requests followed together
Requests == {1, 2, 3}

\* a request that has not arrived
NewRequest ==
    [pc |-> "new", hpc |-> "idle", sessionId |-> "", ref |-> 0,
     known |-> FALSE, mixed |-> FALSE, base |-> <<>>, pushed |-> <<>>,
     sent |-> <<>>, own |-> <<>>, toolTurns |-> 0, aborted |-> FALSE,
     listening |-> TRUE, outcome |-> "none", persisted |-> <<>>,
     model |-> 0, emitted |-> <<>>]

NoRequests ==
    /\ heap = <<>>
    /\ reqs = [q \in Requests |-> NewRequest]
    /\ model = 0
    /\ created = 0

\* the process was started with its API key
Configured == apiKey = TRUE

\* the other components at rest
RestIdle == NotTrimming /\ Scheduled /\ NoRequests /\ Configured

\* before the request: a new session, nothing sent
Fresh ==
    /\ pc = "idle"
    /\ history = <<>>
    /\ turn = 0
    /\ lastToolSignature = ""
    /\ repeatCount = 0
    /\ allToolCalls = <<>>
    /\ chunks = <<>>
    /\ candidate = <<>>
    /\ textChunks = <<>>
    /\ functionCalls = <<>>
    /\ executions = <<>>
    /\ events = <<>>
    /\ result = NoResult
    /\ frames = <<>>
    /\ resEnded = FALSE
    /\ heartbeat = "none"
    /\ pings = 0
    /\ aborted = FALSE
    /\ listening = TRUE
    /\ clientGone = FALSE
    /\ hpc = "idle"
    /\ saved = <<>>

Init ==
    /\ Fresh
    /\ NoSessions
    /\ EmptyCache
    /\ RestIdle
    /\ fuel \in {ShortFuel, LongFuel, PairFuel}

\* the requests followed with the timer and the client
InitStream ==
    /\ Fresh
    /\ NoSessions
    /\ EmptyCache
    /\ RestIdle
    /\ fuel \in {ShortFuel, LongPlainFuel, PairFuel}

\* POST /chat/stream up to its await: the connected frame, then orchestrate
\* up to its first await (the user turn, thinking of turn 1, the stream call)
ChatStream ==
    /\ UNCHANGED elsewhere
    /\ pc = "idle"
    /\ hpc = "idle"
    /\ hpc' = "awaiting"
    /\ frames' = Append(frames, Connected)
            \o <<Thinking(1, thinkingMessage(1, Len(allToolCalls)))>>
    /\ history' = Append(history, UserTurn(<<TextPart(Message)>>))
    /\ events' = Append(events, Thinking(1, thinkingMessage(1, Len(allToolCalls))))
    /\ pc' = "awaitStream"
    /\ listening' = TRUE
    /\ heartbeat' = "set"
    /\ UNCHANGED <<turn, lastToolSignature, repeatCount, allToolCalls, chunks,
                   candidate, textChunks, functionCalls, executions, result,
                   resEnded, aborted, clientGone, saved, fuel, pings>>

(* The signal handed to generateContentStream cuts the HTTP request of a   *)
(* call that was made before it tripped.  orchestrate never reads          *)
(* signal.aborted itself: what a call made with a signal that has already  *)
(* tripped does is the client library's business, and the library is not   *)
(* part of the repository: it may reject at once (LLMFails) or, wiring the *)
(* signal through an abort listener that can no longer fire, run on.       *)
Cut == aborted /\ listening

\* generateContentStream resolves: the LLM has started to answer
LLMResponds ==
    /\ UNCHANGED elsewhere
    /\ pc = "awaitStream"
    /\ ~Cut
    /\ \E r \in Responses :
        /\ Affordable(r)
        /\ chunks' = r.stream
        /\ candidate' = r.final
        /\ fuel' = Spend(r)
    /\ textChunks' = <<>>
    /\ pc' = "streaming"
    /\ UNCHANGED <<history, turn, lastToolSignature, repeatCount, allToolCalls,
                   functionCalls, executions, events, result, frames, resEnded,
                   aborted, listening, clientGone, hpc, saved, heartbeat,
                   pings>>

\* one iteration of for await (const chunk of streamResult.stream)
ConsumeChunk ==
    /\ UNCHANGED elsewhere
    /\ pc = "streaming"
    /\ ~Cut
    /\ chunks # <<>>
    /\ chunks' = Tail(chunks)
    /\ LET part == Head(chunks)
           forwarded == ~IsThought(part) /\ HasText(part) /\ part.text # ""
       IN /\ textChunks' = IF forwarded THEN Append(textChunks, part.text)
                           ELSE textChunks
          /\ OrchestrateStep(IF forwarded THEN <<TextChunk(part.text)>>
                             ELSE <<>>,
                             "streaming", history, allToolCalls, "")
    /\ UNCHANGED <<turn, lastToolSignature, repeatCount, candidate,
                   functionCalls, executions, aborted, clientGone, fuel>>

\* generateContentStream, the stream or streamResult.response rejects: an
\* API error, or the abort of the request timer
LLMFails ==
    /\ UNCHANGED elsewhere
    /\ pc \in {"awaitStream", "streaming"}
    /\ OrchestrateStep(<<>>, "threw", history, allToolCalls, LlmErrorMessage)
    /\ UNCHANGED <<turn, lastToolSignature, repeatCount, chunks, candidate,
                   textChunks, functionCalls, executions, aborted, clientGone,
                   fuel>>

\* the answer of a turn without function calls
FinalText(streamed, cand) ==
    OrElse(OrElse(JoinWith(streamed, ""), VisibleText(cand)), "Done.")

\* the answer when the final response has no candidate parts
EmptyCandidateText(streamed) == OrElse(JoinWith(streamed, ""), NoResponseText)

\* currentSignature === lastToolSignature, after repeatCount++
RepeatBreak(sig, last, count) == sig = last /\ count + 1 >= MAX_REPEATS

NextRepeatCount(sig, last, count) == IF sig = last THEN count + 1 ELSE 0

\* an audit trail that records nothing
pushNothing(atc, execs) == atc

\* an audit trail that records only the calls that succeeded
pushSucceeded(atc, execs) ==
    atc \o SelectSeq([i \in DOMAIN execs |-> execs[i].value.info],
                     LAMBDA info : "error" \notin DOMAIN info)

\* allToolCalls.push(exec.value.info), once per execution, inside
\* functionCalls.map: in the order of the calls
pushInfos(atc, execs) == atc \o [i \in DOMAIN execs |-> execs[i].value.info]

(* Promise.allSettled resolves, in the microtasks of the step that settled  *)
(* the last execution: the function responses, the audit trail, the batch   *)
(* summaries, the all-failed check, and the head of the next iteration.     *)
(* evs are the events the step has emitted so far, hist the history with    *)
(* the model turn.  executeTool catches everything, so no execution is      *)
(* rejected; the all-failed check itself throws on a result that is not an  *)
(* object.                                                                  *)
AllSettled(evs, calls, execs, hist) ==
    LET atc == pushInfos(allToolCalls, execs)
        responded == Append(hist, UserTurn(responseParts(calls, execs)))
        all == evs \o BatchEvents(calls, execs)
    IN IF allFailedThrows(execs)
       THEN /\ turn' = turn
            /\ OrchestrateStep(all, "threw", responded, atc, InOperatorMessage)
       ELSE IF allFailed(execs)
       THEN /\ turn' = turn
            /\ OrchestrateStep(
                    Append(all, Answer(AllFailedText(calls, execs), atc)),
                    "returned", responded, atc, AllFailedText(calls, execs))
       ELSE /\ turn' = turn + 1
            /\ LoopHead(all, turn + 1, responded, atc)

\* some execution is still in flight
InFlight(execs) == \E i \in DOMAIN execs : execs[i] = Pending

(* The stream has ended: await streamResult.response and everything up to   *)
(* a return or to the await of Promise.allSettled, and beyond it when no    *)
(* execution is left in flight.                                             *)
\* the tool_done events of the dispatch ahead of the tool_start
doneThenStart(start, dones) == dones \o <<start>>

\* emit(tool_start), then the map over the function calls, in whose calls
\* of executeTool the tool_done events of the dispatch are emitted
startThenDone(start, dones) == <<start>> \o dones

StreamDone ==
    /\ UNCHANGED elsewhere
    /\ pc = "streaming"
    /\ ~Cut
    /\ chunks = <<>>
    /\ LET calls == ExtractCalls(candidate)
           hist == Append(history, ModelTurn(candidate))
           start == ToolStart(groupedNames(calls), groupedLabels(calls))
           sig == Signature(ToolNames(calls))
       IN IF candidate = <<>>
          THEN /\ OrchestrateStep(
                    <<Answer(EmptyCandidateText(textChunks), allToolCalls)>>,
                    "returned", history, allToolCalls,
                    EmptyCandidateText(textChunks))
               /\ UNCHANGED <<turn, lastToolSignature, repeatCount,
                              functionCalls, executions>>
          ELSE IF calls = <<>>
          THEN /\ OrchestrateStep(
                    <<Answer(FinalText(textChunks, candidate), allToolCalls)>>,
                    "returned", hist, allToolCalls,
                    FinalText(textChunks, candidate))
               /\ UNCHANGED <<turn, lastToolSignature, repeatCount,
                              functionCalls, executions>>
          ELSE IF RepeatBreak(sig, lastToolSignature, repeatCount)
          THEN /\ repeatCount' = repeatCount + 1
               /\ functionCalls' = calls
               /\ executions' = <<>>
               /\ OrchestrateStep(
                    <<start, Answer(RepeatLoopText, allToolCalls)>>,
                    "returned", hist, allToolCalls, RepeatLoopText)
               /\ UNCHANGED <<turn, lastToolSignature>>
          ELSE /\ lastToolSignature' = sig
               /\ repeatCount' =
                    NextRepeatCount(sig, lastToolSignature, repeatCount)
               /\ functionCalls' = calls
               /\ executions' = Dispatch(calls)
               /\ IF InFlight(Dispatch(calls))
                  THEN /\ turn' = turn
                       /\ OrchestrateStep(startThenDone(start,
                                                        DispatchEvents(calls)),
                                          "dispatched", hist, allToolCalls, "")
                  ELSE AllSettled(startThenDone(start, DispatchEvents(calls)),
                                  calls, Dispatch(calls), hist)
    /\ UNCHANGED <<chunks, candidate, textChunks, aborted, clientGone, fuel>>

\* a handler in flight returns or throws, and executeTool resolves; when it
\* was the last one in flight, Promise.allSettled resolves with it
ToolSettles ==
    /\ UNCHANGED elsewhere
    /\ pc = "dispatched"
    /\ \E i \in DOMAIN executions :
        /\ executions[i] = Pending
        /\ LET call == functionCalls[i].functionCall
           IN \E o \in HandlerOutcomes(call.name, call.args) :
              \E ms \in DurationsMs(o.ok) :
                LET value == OutcomeValue(call.name, o, ms)
                    execs == [executions EXCEPT ![i] = Settled(value, o.touched)]
                    done == IF EmitsOwnDone(functionCalls, i)
                            THEN <<ToolDone(value.info)>> ELSE <<>>
                IN /\ executions' = execs
                   /\ IF InFlight(execs)
                      THEN /\ turn' = turn
                           /\ OrchestrateStep(done, "dispatched", history,
                                              allToolCalls, "")
                      ELSE AllSettled(done, functionCalls, execs, history)
    /\ UNCHANGED <<lastToolSignature, repeatCount, chunks, candidate,
                   textChunks, functionCalls, aborted, clientGone, fuel>>

(* The 180 s timer fires while the handler awaits the race: the signal is   *)
(* tripped, the race rejects, and the handler's catch and finally run on to *)
(* res.end().  orchestrate stays where it is.                               *)
TimerFires ==
    /\ UNCHANGED elsewhere
    /\ hpc = "awaiting"
    /\ aborted' = TRUE
    /\ frames' = catchError(frames, TimeoutMessage)
    /\ heartbeat' = clearInterval(heartbeat)
    /\ resEnded' = TRUE
    /\ hpc' = "done"
    /\ UNCHANGED <<orchVars, clientGone, saved, fuel, pings>>

\* req.on('close')
ClientCloses ==
    /\ UNCHANGED elsewhere
    /\ hpc = "awaiting"
    /\ ~clientGone
    /\ clientGone' = TRUE
    /\ UNCHANGED <<orchVars, frames, resEnded, aborted, hpc, saved, fuel,
                   heartbeat, pings>>

\* frames of the heartbeat followed in one request
MaxPings == 1

\* the heartbeat's timer fires: if (!res.writableEnded) res.write(':ping')
Heartbeat ==
    /\ UNCHANGED elsewhere
    /\ heartbeat = "set"
    /\ pings < MaxPings
    /\ pings' = IF resEnded THEN pings ELSE pings + 1
    /\ UNCHANGED <<orchVars, frames, resEnded, aborted, hpc, saved, fuel,
                   heartbeat, clientGone>>

\* a request whose timer does not fire and whose client stays
Next ==
    \/ ChatStream
    \/ LLMResponds
    \/ ConsumeChunk
    \/ StreamDone
    \/ LLMFails
    \/ ToolSettles

Spec == Init /\ [][Next]_vars

\* the same request with the timer and the client
NextStream ==
    \/ Next
    \/ TimerFires
    \/ ClientCloses
    \/ Heartbeat

SpecStream == InitStream /\ [][NextStream]_vars

-----------------------------------------------------------------------------
(* Chat requests against the session store.  What orchestrate does in      *)
(* between is left out here: a request arrives, resolves its session, and  *)
(* some time later either saves a history or ends without saving.          *)

InitStore ==
    /\ Fresh
    /\ NoSessions
    /\ EmptyCache
    /\ RestIdle
    /\ fuel = ShortFuel

\* time passes; what the last operation returned has been used by then
Tick ==
    /\ now < MaxTime
    /\ now' = now + 1
    /\ ret' = [op |-> "none"]
    /\ UNCHANGED <<chatVars, restVars, cacheVars, sessions, uuids, inflight>>

(* POST /chat and POST /chat/stream down to the call of orchestrate: the   *)
(* body carries a well-formed sessionId (one the server issued before, or  *)
(* one the client made up) or none, written "".                            *)
Arrive ==
    /\ BagCardinality(inflight) < MaxInflight
    /\ \E supplied \in {""} \cup Issued(uuids) \cup Fabricated :
        LET got == IF supplied # "" THEN getSession(sessions, now, supplied)
                   ELSE Null
            read == IF supplied # ""
                    THEN getSessionTouches(sessions, now, supplied)
                    ELSE sessions
            fresh == Uuid(uuids + 1)
            sessionId == served(supplied, got, fresh)
        IN /\ got = Null => uuids < MaxUuids
           /\ sessions' = IF got = Null THEN createSession(read, now, fresh)
                          ELSE read
           /\ uuids' = IF got = Null THEN uuids + 1 ELSE uuids
           /\ inflight' = inflight (+) SetToBag({sessionId})
           /\ ret' = [op |-> "arrive", supplied |-> supplied, got |-> got,
                      sessionId |-> sessionId,
                      full |-> got = Null /\ Len(read) >= MAX_SESSIONS]
    /\ UNCHANGED <<chatVars, restVars, cacheVars, now>>

\* orchestrate returned: setSession(sessionId, trimHistory(result.history))
Finish ==
    /\ \E id \in BagToSet(inflight), h \in Histories :
        /\ sessions' = setSession(sessions, now, id, h)
        /\ inflight' = inflight (-) SetToBag({id})
        /\ ret' = [op |-> "set", sessionId |-> id, history |-> h,
                   known |-> id \in Keys(sessions)]
    /\ UNCHANGED <<chatVars, restVars, cacheVars, now, uuids>>

\* orchestrate threw, the timer fired, or the stream's client had gone
GiveUp ==
    /\ \E id \in BagToSet(inflight) :
        /\ inflight' = inflight (-) SetToBag({id})
        /\ ret' = [op |-> "none"]
    /\ UNCHANGED <<chatVars, restVars, cacheVars, now, sessions, uuids>>

DeleteSession ==
    /\ \E id \in Keys(sessions) :
        /\ sessions' = deleteSession(sessions, id)
        /\ ret' = [op |-> "delete", sessionId |-> id]
    /\ UNCHANGED <<chatVars, restVars, cacheVars, now, uuids, inflight>>

\* setInterval(evictExpired, 5 min)
Sweep ==
    /\ sessions' = evictExpired(sessions, now)
    /\ sessions' # sessions
    /\ ret' = [op |-> "sweep"]
    /\ UNCHANGED <<chatVars, restVars, cacheVars, now, uuids, inflight>>

NextStore ==
    \/ Tick
    \/ Arrive
    \/ Finish
    \/ GiveUp
    \/ DeleteSession
    \/ Sweep

SpecStore == InitStore /\ [][NextStore]_vars

-----------------------------------------------------------------------------
(* The cached tools against the document store.  A tool that misses goes   *)
(* to its actor and writes what it got; the awaits of one call are taken   *)
(* in one step, at one reading of the clock.                               *)

InitCache ==
    /\ Fresh
    /\ NoSessions
    /\ EmptyCache
    /\ RestIdle
    /\ fuel = ShortFuel

\* a find that hit returns cacheHit: true, else the actor's items are written
ReadThrough(tool, coll, q, item, key) ==
    LET fresh == FindFresh(docs, coll, q, now)
    IN IF fresh # {}
       THEN /\ cacheRet' = Hit(tool, coll, fresh)
            /\ docs' = docs
       ELSE \/ /\ cacheRet' = Miss(tool)
               /\ docs' = [docs EXCEPT ![coll] =
                            updateOne(@, key, SetFields(item, [cachedAt |-> now]))]
            \/ /\ cacheRet' = Rejects(tool)
               /\ docs' = docs

\* get_profile: findOne returns one of the documents that match
executeGetProfile ==
    /\ LET fresh == FindFresh(docs, "ig_profiles", [username |-> User], now)
       IN IF fresh # {}
          THEN /\ \E d \in fresh : cacheRet' = Hit("get_profile", "ig_profiles", {d})
               /\ docs' = docs
          ELSE \/ /\ cacheRet' = Miss("get_profile")
                  /\ docs' = writeCache(docs, "ig_profiles",
                                        [username |-> User], Profile, now)
               \/ /\ cacheRet' = [tool |-> "get_profile",
                                  error |-> "Profile not found: " \o User]
                  /\ docs' = docs
               \/ /\ cacheRet' = Rejects("get_profile")
                  /\ docs' = docs
    /\ UNCHANGED <<chatVars, restVars, now, storeVars>>

executeGetUserPosts ==
    /\ ReadThrough("get_user_posts", "ig_posts", [username |-> User], Post,
                   [postId |-> Post.postId])
    /\ UNCHANGED <<chatVars, restVars, now, storeVars>>

executeGetUserReels ==
    /\ ReadThrough("get_user_reels", "ig_reels", [username |-> User], Post,
                   [postId |-> Post.postId])
    /\ UNCHANGED <<chatVars, restVars, now, storeVars>>

\* get_hashtag_posts: a fresh meta document, then the fresh posts
executeGetHashtagPosts ==
    /\ LET meta == FindFresh(docs, "ig_hashtag_posts_meta",
                             [hashtag |-> Hashtag], now)
           posts == FindFresh(docs, "ig_hashtag_posts",
                              [sourceHashtag |-> Hashtag], now)
           key == [postId |-> HashtagPost.postId, sourceHashtag |-> Hashtag]
           written == [docs EXCEPT !["ig_hashtag_posts"] =
                        updateOne(@, key,
                                  SetFields(HashtagPost, [cachedAt |-> now]))]
       IN IF meta # {}
          THEN /\ cacheRet' = Hit("get_hashtag_posts", "ig_hashtag_posts_meta",
                                  meta \cup posts)
               /\ docs' = docs
          ELSE \/ /\ cacheRet' = Miss("get_hashtag_posts")
                  /\ docs' = writeCache(written, "ig_hashtag_posts_meta",
                                        [hashtag |-> Hashtag], Meta, now)
               \/ /\ cacheRet' = Rejects("get_hashtag_posts")
                  /\ docs' \in {docs, written}
    /\ UNCHANGED <<chatVars, restVars, now, storeVars>>

\* get_hashtag_stats: the cached stats, or an aggregate of the fresh posts
executeGetHashtagStats ==
    /\ LET cached == FindFresh(docs, "ig_hashtag_stats",
                               [hashtag |-> Hashtag], now)
           posts == FindFresh(docs, "ig_hashtag_posts",
                              [sourceHashtag |-> Hashtag], now)
       IN IF cached # {}
          THEN /\ cacheRet' = Hit("get_hashtag_stats", "ig_hashtag_stats",
                                  cached)
               /\ docs' = docs
          ELSE IF posts = {}
          THEN /\ cacheRet' = [tool |-> "get_hashtag_stats",
                               error |-> "No cached data for #" \o Hashtag]
               /\ docs' = docs
          ELSE \/ /\ cacheRet' = Miss("get_hashtag_stats")
                  /\ docs' = writeCache(docs, "ig_hashtag_stats",
                                        [hashtag |-> Hashtag], Stats, now)
               \/ /\ cacheRet' = Rejects("get_hashtag_stats")
                  /\ docs' = docs
    /\ UNCHANGED <<chatVars, restVars, now, storeVars>>

\* check_post: findOne({ url }) in three collections, the first hit wins
executeCheckPost ==
    /\ LET q == [url |-> PostUrl]
           postDoc == FindAny(docs, "ig_posts", q)
           reelDoc == FindAny(docs, "ig_reels", q)
           hashtagDoc == FindAny(docs, "ig_hashtag_posts", q)
           coll == IF postDoc # {} THEN "ig_posts"
                   ELSE IF reelDoc # {} THEN "ig_reels" ELSE "ig_hashtag_posts"
       IN IF postDoc \cup reelDoc \cup hashtagDoc # {}
          THEN /\ \E d \in FindAny(docs, coll, q) :
                    cacheRet' = Hit("check_post", coll, {d})
               /\ docs' = docs
          ELSE \/ /\ cacheRet' = Miss("check_post")
                  /\ docs' = [docs EXCEPT !["ig_posts"] =
                               updateOne(@, [postId |-> Post.postId],
                                         SetFields(Post, [cachedAt |-> now]))]
               \/ /\ cacheRet' = Rejects("check_post")
                  /\ docs' = docs
    /\ UNCHANGED <<chatVars, restVars, now, storeVars>>

\* getOrFetchProfile: the cached document, or the actor's profile with a
\* write whose rejection is swallowed, or null
getOrFetchProfile ==
    /\ LET fresh == FindFresh(docs, "ig_profiles", [username |-> User], now)
       IN IF fresh # {}
          THEN /\ \E d \in fresh :
                    cacheRet' = [tool |-> "getOrFetchProfile", value |-> d,
                                 at |-> now]
               /\ docs' = docs
          ELSE \/ /\ cacheRet' = [tool |-> "getOrFetchProfile",
                                  value |-> Profile, writeFailed |-> FALSE,
                                  at |-> now]
                  /\ docs' = writeCache(docs, "ig_profiles",
                                        [username |-> User], Profile, now)
               \/ /\ cacheRet' = [tool |-> "getOrFetchProfile",
                                  value |-> Profile, writeFailed |-> TRUE,
                                  at |-> now]
                  /\ docs' = docs
               \/ /\ cacheRet' = [tool |-> "getOrFetchProfile",
                                  value |-> Null, at |-> now]
                  /\ docs' = docs
    /\ UNCHANGED <<chatVars, restVars, now, storeVars>>

\* the cacheFirst middleware in front of a route, configured for profiles
cacheFirst ==
    /\ LET fresh == FindFresh(docs, "ig_profiles", [username |-> User], now)
       IN IF fresh # {}
          THEN \E d \in fresh : cacheRet' = Hit("cacheFirst", "ig_profiles", {d})
          ELSE cacheRet' = Miss("cacheFirst")
    /\ UNCHANGED <<chatVars, restVars, now, storeVars, docs>>

\* writeCache called by itself, as the discovery tools do
WriteCache ==
    /\ \E data \in Payloads :
        /\ docs' = writeCache(docs, "ig_profiles", [username |-> User], data, now)
        /\ cacheRet' = [tool |-> "writeCache", coll |-> "ig_profiles",
                        query |-> [username |-> User], data |-> data,
                        at |-> now]
    /\ UNCHANGED <<chatVars, restVars, now, storeVars>>

\* the store's TTL index deletes a document whose time is up, some time
\* after it is up
Expire ==
    /\ \E coll \in Collections : \E d \in docs[coll] :
        /\ ~FreshAt(d, coll, now)
        /\ docs' = [docs EXCEPT ![coll] = @ \ {d}]
    /\ UNCHANGED <<chatVars, restVars, now, storeVars, cacheRet>>

NextCache ==
    \/ Tick
    \/ executeGetProfile
    \/ executeGetUserPosts
    \/ executeGetUserReels
    \/ executeGetHashtagPosts
    \/ executeGetHashtagStats
    \/ executeCheckPost
    \/ getOrFetchProfile
    \/ cacheFirst
    \/ WriteCache
    \/ Expire

SpecCache == InitCache /\ [][NextCache]_vars

-----------------------------------------------------------------------------
(* trimHistory by itself, on histories whose function response carries any *)
(* of the fields posts, reels, results and totalFetched, the arrays at     *)
(* their limits or one past them.                                          *)

Items(n) == [i \in 1..n |-> i]

PostsLengths == {3, 4}
ResultsLengths == {5, 6}

\* the fields of rec named in keys
Restrict(rec, keys) == [k \in keys |-> rec[k]]

TrimPayloads ==
    {Restrict([posts |-> Arr(Items(np)), reels |-> Arr(Items(nr)),
               results |-> Arr(Items(nx)), totalFetched |-> 9,
               username |-> User],
              keys \cup {"username"}) :
        np \in PostsLengths, nr \in PostsLengths, nx \in ResultsLengths,
        keys \in SUBSET {"posts", "reels", "results", "totalFetched"}}

TrimInputs ==
    {<<UserTurn(<<TextPart("hi")>>),
       ModelTurn(thought \o <<CallPart("get_user_posts", "valid")>>),
       UserTurn(<<ResponsePart("get_user_posts", payload)>>)>> :
        thought \in {<<>>, <<ThoughtPart(Plan)>>}, payload \in TrimPayloads}

InitTrim ==
    /\ Fresh
    /\ NoSessions
    /\ EmptyCache
    /\ fuel = ShortFuel
    /\ Scheduled
    /\ NoRequests
    /\ Configured
    /\ trimIn \in TrimInputs
    /\ trimOut = <<>>

TrimHistory ==
    /\ trimOut = <<>>
    /\ trimOut' = trimHistory(trimIn)
    /\ UNCHANGED <<chatVars, now, storeVars, cacheVars, schedVars, sharedVars,
                   trimIn>>

\* the trimmed history is trimmed again, as the persisted turns are at the
\* end of the next request of the session
TrimAgain ==
    /\ trimOut # <<>>
    /\ trimIn # trimOut
    /\ trimIn' = trimOut
    /\ trimOut' = trimHistory(trimOut)
    /\ UNCHANGED <<chatVars, now, storeVars, cacheVars, schedVars, sharedVars>>

NextTrim == TrimHistory \/ TrimAgain

SpecTrim == InitTrim /\ [][NextTrim]_vars

-----------------------------------------------------------------------------
(* The scheduler (services/scheduler.ts).  An execution of a job is a      *)
(* record of where it is suspended, the items of its loop, the index of    *)
(* the item it is at and the trace of what it has done; one step is one    *)
(* run of the job between two awaits.                                      *)

GNC_HASHTAGS == <<"gnclivewell", "gncfitness", "gncindia", "gncprotein">>

Hour == 3600000

\* getCheckIntervalMs, of the age of the post in ms
getCheckIntervalMs(ageMs) ==
    IF ageMs < 24 * Hour THEN 2 * Hour
    ELSE IF ageMs < 72 * Hour THEN 4 * Hour
    ELSE IF ageMs < 168 * Hour THEN 12 * Hour
    ELSE 24 * Hour

\* how long ago a post was registered and last checked when the loop comes
\* to it: on both sides of each threshold
Timings ==
    {[age |-> 24 * Hour - 1, since |-> 2 * Hour],
     [age |-> 24 * Hour, since |-> 4 * Hour - 1],
     [age |-> 72 * Hour, since |-> 12 * Hour - 1],
     [age |-> 168 * Hour - 1, since |-> 12 * Hour],
     [age |-> 168 * Hour, since |-> 24 * Hour - 1],
     [age |-> 168 * Hour, since |-> 24 * Hour]}

\* the ids in increasing order
RECURSIVE InOrderOf(_)
InOrderOf(S) ==
    IF S = {} THEN <<>>
    ELSE LET m == CHOOSE x \in S : \A y \in S : x <= y
         IN <<m>> \o InOrderOf(S \ {m})

\* find({ status: { $ne: 'deleted' } }).toArray()
Found == InOrderOf({id \in DOMAIN campaignPosts :
                        campaignPosts[id].status # "deleted"})

\* what find() returns: the posts found, each with its two timestamps
PostLists ==
    {[n \in DOMAIN Found |->
        [id |-> Found[n], age |-> t[n].age, since |-> t[n].since]] :
            t \in [DOMAIN Found -> Timings]}

\* postStatus of one monitoring; `edited` and `unknown` are to the scheduler
\* what `live` is
PostStatuses == {"live", "deleted"}

\* the update of campaign_posts at the end of monitorCampaignPost; `marked`
\* remembers that some monitoring has set the status to deleted
Monitored(id, status) ==
    [campaignPosts EXCEPT
        ![id] = [status |-> status,
                 marked |-> @.marked \/ status = "deleted"]]

Running(job) ==
    IF job = "monitorActivePosts" THEN monitorRunning ELSE prefetchRunning

SetRunning(job, v) ==
    IF job = "monitorActivePosts"
    THEN monitorRunning' = v /\ UNCHANGED prefetchRunning
    ELSE prefetchRunning' = v /\ UNCHANGED monitorRunning

\* the guard at the head of a job without its test
skipsNever(flag) == FALSE

\* if (monitorRunning) { ...; return; }
skips(flag) == flag

\* the item is skipped by `continue`
IsDue(item) ==
    "since" \in DOMAIN item => ~(item.since < getCheckIntervalMs(item.age))

\* the indexes after `from` of the items the loop will call the tool for
DueAfter(items, from) == {j \in DOMAIN items : j > from /\ IsDue(items[j])}

Least(S) == CHOOSE j \in S : \A k \in S : j <= k

\* the flag when the job is over, were it put down by the last statement of
\* the try block
afterTry(threw) == threw

\* finally { monitorRunning = false; }
afterFinally(threw) == FALSE

\* the for loop from the item after `from` up to its next await, or to the
\* end of the job: the try's end and the finally
Advance(job, k, e, from, trace) ==
    IF DueAfter(e.items, from) # {}
    THEN /\ runs' = [runs EXCEPT ![job][k] =
                        [e EXCEPT !.pc = "call",
                                  !.i = Least(DueAfter(e.items, from)),
                                  !.trace = Append(trace, "call")]]
         /\ UNCHANGED <<monitorRunning, prefetchRunning, ended>>
    ELSE /\ runs' = [runs EXCEPT ![job] = Without(@, k)]
         /\ ended' = "loop done"
         /\ SetRunning(job, afterFinally(FALSE))

\* catch (err) { console.error(...) } around one invocation
catchAndLog(trace) == Append(Append(trace, "failed"), "logged")

InitSched ==
    /\ Fresh
    /\ NoSessions
    /\ EmptyCache
    /\ NotTrimming
    /\ Scheduled
    /\ NoRequests
    /\ Configured
    /\ fuel = ShortFuel

others == <<chatVars, now, storeVars, cacheVars, trimVars, sharedVars>>

\* a job's timer fires: setInterval's tick
Fire(job) ==
    IF skips(Running(job))
    THEN /\ trigger' = [job |-> job, did |-> "skipped"]
         /\ UNCHANGED <<monitorRunning, prefetchRunning, runs>>
    ELSE /\ Len(runs[job]) < MaxRuns
         /\ trigger' = [job |-> job, did |-> "started"]
         /\ SetRunning(job, TRUE)
         /\ runs' = [runs EXCEPT ![job] = Append(@,
                IF job = "monitorActivePosts"
                THEN [pc |-> "find", items |-> <<>>, i |-> 0, trace |-> <<>>]
                ELSE [pc |-> "call",
                      items |-> [n \in DOMAIN GNC_HASHTAGS |->
                                    [hashtag |-> GNC_HASHTAGS[n]]],
                      i |-> 1, trace |-> <<"call">>])]

IntervalFires ==
    /\ \E job \in Jobs : Fire(job)
    /\ UNCHANGED <<others, startup, ended, campaignPosts>>

\* the setTimeout of startScheduler, once
StartupFires ==
    /\ startup
    /\ startup' = FALSE
    /\ Fire("prefetchGNCHashtags")
    /\ UNCHANGED <<others, ended, campaignPosts>>

\* monitorActivePosts: the find settles
FindSettles ==
    /\ \E k \in DOMAIN runs["monitorActivePosts"] :
        LET job == "monitorActivePosts"
            e == runs[job][k]
        IN /\ e.pc = "find"
           /\ \/ \E posts \in PostLists :
                    Advance(job, k, [e EXCEPT !.items = posts], 0, e.trace)
              \/ /\ runs' = [runs EXCEPT ![job] = Without(@, k)]
                 /\ ended' = "find threw"
                 /\ SetRunning(job, afterFinally(TRUE))
    /\ trigger' = [job |-> "none"]
    /\ UNCHANGED <<others, startup, campaignPosts>>

\* the tool invocation of the item settles: on success the sleep is
\* started, on failure the catch logs and the loop goes on
CallSettles ==
    /\ \E job \in Jobs : \E k \in DOMAIN runs[job] :
        LET e == runs[job][k]
        IN /\ e.pc = "call"
           /\ \/ /\ runs' = [runs EXCEPT ![job][k] =
                                [e EXCEPT !.pc = "sleep",
                                          !.trace = Append(@, "ok")]]
                 /\ IF job = "monitorActivePosts"
                    THEN \E status \in PostStatuses :
                            campaignPosts' = Monitored(e.items[e.i].id, status)
                    ELSE UNCHANGED campaignPosts
                 /\ UNCHANGED <<monitorRunning, prefetchRunning, ended>>
              \/ /\ Advance(job, k, e, e.i, catchAndLog(e.trace))
                 /\ UNCHANGED campaignPosts
    /\ trigger' = [job |-> "none"]
    /\ UNCHANGED <<others, startup>>

\* the 2 s timer of the sleep fires
SleepDone ==
    /\ \E job \in Jobs : \E k \in DOMAIN runs[job] :
        LET e == runs[job][k]
        IN /\ e.pc = "sleep"
           /\ Advance(job, k, e, e.i, Append(e.trace, "slept"))
    /\ trigger' = [job |-> "none"]
    /\ UNCHANGED <<others, startup, campaignPosts>>

\* the chat tool monitor_campaign_post, called for a registered post, comes
\* to its update of campaign_posts
ToolMonitors ==
    /\ \E id \in DOMAIN campaignPosts : \E status \in PostStatuses :
            campaignPosts' = Monitored(id, status)
    /\ campaignPosts' # campaignPosts
    /\ trigger' = [job |-> "none"]
    /\ UNCHANGED <<others, monitorRunning, prefetchRunning, runs, startup,
                   ended>>

NextSched ==
    \/ IntervalFires
    \/ StartupFires
    \/ FindSettles
    \/ CallSettles
    \/ SleepDone
    \/ ToolMonitors

SpecSched == InitSched /\ [][NextSched]_vars

-----------------------------------------------------------------------------
(* Chat requests that share the session store.  A Content[] is an array    *)
(* on the heap and a session holds the reference of its history, as        *)
(* getSession returns it and orchestrate pushes to it in place.  Of        *)
(* orchestrate only what it does to the history is followed: one step is   *)
(* one run of a request between two awaits.                                *)

\* turns of function calls a request is followed through
MaxToolTurns == 1

MessageOf(q) == "message " \o ToString(q)

\* what the LLM answers request q in the end, and its function call
FinalTurn(q) ==
    ModelTurn(<<ThoughtPart(Plan), TextPart("answer " \o ToString(q))>>)
CallTurn == ModelTurn(<<CallPart("get_profile", "valid")>>)
ResponseTurn == UserTurn(<<ResponsePart("get_profile", Profile)>>)

\* getModel without its first line: an instance per call
getModelAnew(m, n) == n + 1

\* getModel: if (_model) return _model; else the instance it creates
getModel(m, n) == IF m # 0 THEN m ELSE n + 1

\* history.push(turn) on the array r
Push(hp, r, t) == [hp EXCEPT ![r] = Append(@, t)]

\* the history of the session id, dereferenced
Stored(id) == heap[sessions[IndexOf(sessions, id)].history]

\* a request under way: it has arrived, and orchestrate or the handler has
\* still something to do
UnderWay(r) == r.pc \in {"llm", "tools"}

\* request q has taken a step; a request that arrives on the session of
\* others is marked on them, and they on it
Update(q, rec) ==
    [r \in Requests |->
        IF r = q THEN rec
        ELSE IF reqs[q].pc = "new" /\ reqs[r].pc # "new"
                /\ reqs[r].sessionId = rec.sessionId
        THEN [reqs[r] EXCEPT !.mixed = TRUE]
        ELSE reqs[r]]

InitShared ==
    /\ Fresh
    /\ NoSessions
    /\ EmptyCache
    /\ NotTrimming
    /\ Scheduled
    /\ NoRequests
    /\ apiKey \in BOOLEAN
    /\ fuel = ShortFuel

outside == <<chatVars, now, cacheVars, trimVars, schedVars, inflight, ret>>

\* the handler up to its await: the session is resolved, and orchestrate
\* pushes the user turn and calls the LLM with the history
Request(q) ==
    /\ reqs[q].pc = "new"
    /\ \E supplied \in {""} \cup Issued(uuids) :
        LET got == IF supplied = "" THEN Null
                   ELSE getSession(sessions, now, supplied)
            touched == IF supplied = "" THEN sessions
                       ELSE getSessionTouches(sessions, now, supplied)
            id == served(supplied, got, Uuid(uuids + 1))
            allocated == IF got = Null THEN heap \o <<<<>>, <<>>>> ELSE heap
            ref == IF got = Null THEN Len(heap) + 2 ELSE got.history
            created_ == createSession(touched, now, id)
            base == allocated[ref]
            turn1 == UserTurn(<<TextPart(MessageOf(q))>>)
            throws == model = 0 /\ ~apiKey
            instance == getModel(model, created)
        IN /\ sessions' =
                IF got = Null
                THEN [created_ EXCEPT ![Len(created_)].history = Len(heap) + 1]
                ELSE touched
           /\ uuids' = IF got = Null THEN uuids + 1 ELSE uuids
           /\ IF throws
              THEN /\ heap' = allocated
                   /\ reqs' = Update(q,
                        [reqs[q] EXCEPT !.pc = "threw", !.hpc = "done",
                            !.sessionId = id, !.ref = ref,
                            !.known = (got # Null), !.base = base,
                            !.own = base, !.outcome = "error"])
                   /\ UNCHANGED <<model, created>>
              ELSE /\ heap' = Push(allocated, ref, turn1)
                   /\ model' = instance
                   /\ created' = IF instance > created THEN instance
                                 ELSE created
                   /\ reqs' = Update(q,
                        [reqs[q] EXCEPT !.pc = "llm", !.hpc = "awaiting",
                            !.sessionId = id, !.ref = ref,
                            !.known = (got # Null),
                            !.mixed = \E r \in Requests \ {q} :
                                reqs[r].sessionId = id /\ UnderWay(reqs[r]),
                            !.base = base, !.pushed = <<turn1>>,
                            !.sent = Append(base, turn1),
                            !.own = Append(base, turn1),
                            !.model = instance,
                            !.emitted = <<"thinking">>])
    /\ UNCHANGED <<outside, apiKey>>

\* orchestrate returns: the handler, if it still awaits, saves the trimmed
\* history, a new array, under the session id
Returns(q, rec, hp) ==
    IF rec.hpc = "awaiting"
    THEN /\ heap' = Append(hp, trimHistory(hp[rec.ref]))
         /\ sessions' = setSession(sessions, now, rec.sessionId, Len(hp) + 1)
         /\ reqs' = Update(q, [rec EXCEPT !.pc = "returned", !.hpc = "done",
                                          !.outcome = "saved",
                                          !.persisted = trimHistory(hp[rec.ref])])
    ELSE /\ heap' = hp
         /\ sessions' = sessions
         /\ reqs' = Update(q, [rec EXCEPT !.pc = "returned"])

\* the LLM's response has been consumed: a final answer, a function call,
\* no candidate, or the stream's failure
LLMAnswers(q) ==
    /\ reqs[q].pc = "llm"
    /\ LET rec == reqs[q]
           cut == rec.aborted /\ rec.listening
       IN \/ /\ ~cut
             /\ Returns(q, [rec EXCEPT !.pushed = Append(@, FinalTurn(q))],
                        Push(heap, rec.ref, FinalTurn(q)))
          \/ /\ ~cut
             /\ Returns(q, rec, heap)
          \/ /\ ~cut
             /\ rec.toolTurns < MaxToolTurns
             /\ heap' = Push(heap, rec.ref, CallTurn)
             /\ reqs' = Update(q, [rec EXCEPT !.pc = "tools",
                                              !.toolTurns = @ + 1,
                                              !.pushed = Append(@, CallTurn)])
             /\ sessions' = sessions
          \/ /\ reqs' = Update(q, [rec EXCEPT
                            !.pc = "threw",
                            !.hpc = "done",
                            !.outcome = IF rec.hpc = "awaiting" THEN "error"
                                        ELSE rec.outcome])
             /\ UNCHANGED <<heap, sessions>>
    /\ UNCHANGED <<outside, uuids, modelVars>>

\* Promise.allSettled resolves: the function responses are pushed and the
\* next turn calls the LLM with the history
ToolsSettle(q) ==
    /\ reqs[q].pc = "tools"
    /\ LET rec == reqs[q]
           hp == Push(heap, rec.ref, ResponseTurn)
           mine == Append(rec.pushed, ResponseTurn)
       IN /\ heap' = hp
          /\ reqs' = Update(q, [rec EXCEPT !.pc = "llm",
                                           !.pushed = mine,
                                           !.listening = ~rec.aborted,
                                           !.sent = hp[rec.ref],
                                           !.own = rec.base \o mine])
    /\ UNCHANGED <<outside, sessions, uuids, modelVars>>

\* the handler's timer fires while it awaits the race: the signal is
\* tripped and the request ends in an error; orchestrate is not stopped
TimesOut(q) ==
    /\ reqs[q].hpc = "awaiting"
    /\ reqs' = Update(q, [reqs[q] EXCEPT !.hpc = "done", !.aborted = TRUE,
                                         !.outcome = "error"])
    /\ UNCHANGED <<outside, heap, sessions, uuids, modelVars>>

NextShared ==
    \E q \in Requests :
        \/ Request(q)
        \/ LLMAnswers(q)
        \/ ToolsSettle(q)
        \/ TimesOut(q)

SpecShared == InitShared /\ [][NextShared]_vars

-----------------------------------------------------------------------------
(* Properties *)

FramesOfType(t) == SelectSeq(frames, LAMBDA f : f.type = t)
EventsOfType(t) == SelectSeq(events, LAMBDA e : e.type = t)

\* the index of the last event of type t, 0 if there is none
LastIndexOf(t) ==
    LET at == {i \in DOMAIN events : events[i].type = t}
    IN IF at = {} THEN 0 ELSE CHOOSE i \in at : \A j \in at : j <= i

Range(seq) == {seq[i] : i \in DOMAIN seq}

SameMultiset(a, b) ==
    \A n \in Range(a) \cup Range(b) : Count(a, n) = Count(b, n)

\* the tool names of the model turns of h that request tools, turn by turn
ModelCallTurns(h) ==
    LET asking == SelectSeq(h, LAMBDA e : e.role = "model"
                                          /\ ExtractCalls(e.parts) # <<>>)
    IN [i \in DOMAIN asking |-> ToolNames(ExtractCalls(asking[i].parts))]

\* how many turns at the end of a non-empty `turns` ask for the same multiset
RunLength(turns) ==
    LET n == Len(turns)
        same == {k \in 1..n :
                    \A j \in (n - k + 1)..n : SameMultiset(turns[j], turns[n])}
    IN CHOOSE k \in same : \A m \in same : m <= k

RECURSIVE TotalLen(_)
TotalLen(seqs) == IF seqs = <<>> THEN 0 ELSE Len(Head(seqs)) + TotalLen(Tail(seqs))

\* the text of every thought part the model has produced in this request
ThoughtTexts ==
    LET parts == UNION {Range(history[i].parts) : i \in DOMAIN history}
                    \cup Range(candidate) \cup Range(chunks)
    IN {p.text : p \in {q \in parts : "thought" \in DOMAIN q}}

(* C1: at every moment of a /chat/stream request at most one terminal      *)
(* frame has been written, and once the response is ended exactly one: an  *)
(* answer, which takes orchestrate to have returned with the timer not     *)
(* fired, or an error, which takes orchestrate to have thrown or the timer *)
(* to have fired; orchestrate going on in the background adds none.        *)
C1_OneTerminalFrame ==
    LET answers == Len(FramesOfType("answer"))
        errors == Len(FramesOfType("error"))
    IN /\ answers + errors <= 1
       /\ resEnded => answers + errors = 1
       /\ resEnded <=> hpc = "done"
       /\ answers = 1 => pc = "returned" /\ ~aborted
       /\ errors = 1 => pc = "threw" \/ aborted

\* the timer fired, and orchestrate then returned with an answer nobody saw
C1_ReturnedAfterTimeout ==
    /\ resEnded
    /\ aborted
    /\ pc = "returned"
    /\ Len(EventsOfType("answer")) = 1
    /\ Len(FramesOfType("error")) = 1
    /\ FramesOfType("answer") = <<>>

(* C2: when orchestrate has returned, every model turn of the history that *)
(* holds k >= 1 function calls is followed at once by a user turn of       *)
(* exactly k function responses, the i-th named as the i-th call.          *)
C2_EveryCallAnswered ==
    pc = "returned" =>
        \A i \in DOMAIN history :
            LET calls == ExtractCalls(history[i].parts)
            IN (history[i].role = "model" /\ calls # <<>>) =>
                /\ i < Len(history)
                /\ history[i + 1].role = "user"
                /\ Len(history[i + 1].parts) = Len(calls)
                /\ \A k \in DOMAIN calls :
                    /\ HasResponse(history[i + 1].parts[k])
                    /\ history[i + 1].parts[k].functionResponse.name
                            = calls[k].functionCall.name

(* C3: orchestrate ends without an answer only because an LLM stream       *)
(* failed: when every LLM stream delivers its response and every tool call *)
(* settles, it ends by emitting an answer.                                 *)
C3_SettledMeansAnswer ==
    /\ pc = "threw" => result = [error |-> LlmErrorMessage]
    /\ pc = "returned" => Len(EventsOfType("answer")) = 1

(* C4: the repeat counter is the number of turns, less one, at the end of  *)
(* the request that asked for the same multiset of tool names; a turn that *)
(* asks for another multiset is the new reference and has the counter at   *)
(* 0.  The third identical turn in a row, and nothing else, ends the call  *)
(* with the canned answer: its calls are not dispatched (the history ends  *)
(* with the model turn, the audit trail holds the calls of the earlier     *)
(* turns only, the answer follows tool_start at once) and the turns are    *)
(* not used up.                                                            *)
C4_ThirdIdenticalTurnBreaks ==
    LET turns == ModelCallTurns(history)
        n == Len(turns)
        broke == pc = "returned" /\ result.text = RepeatLoopText
    IN IF n = 0
       THEN repeatCount = 0 /\ lastToolSignature = "" /\ ~broke
       ELSE /\ repeatCount = RunLength(turns) - 1
            /\ lastToolSignature = Signature(turns[n])
            /\ RunLength(turns) <= MAX_REPEATS + 1
            /\ broke <=> RunLength(turns) = MAX_REPEATS + 1
            /\ broke =>
                /\ history[Len(history)].role = "model"
                /\ Len(allToolCalls) = TotalLen(SubSeq(turns, 1, n - 1))
                /\ result.toolCalls = allToolCalls
                /\ events[Len(events) - 1].type = "tool_start"
                /\ events[Len(events)] = Answer(RepeatLoopText, allToolCalls)
                /\ turn < MAX_TURNS

\* the loop was broken by turns that name the same tools in another order
C4_BrokenByPermutedTurns ==
    LET turns == ModelCallTurns(history)
        n == Len(turns)
    IN /\ pc = "returned"
       /\ result.text = RepeatLoopText
       /\ n >= 3
       /\ Len(turns[n]) = 2
       /\ turns[n] # turns[n - 1]

(* C5: in the step in which the last tool call of a turn settles, if every  *)
(* call of the turn yielded an error payload orchestrate opens no further  *)
(* LLM stream: it appends the function responses, emits one answer whose   *)
(* text lists the first three `name: message` lines and counts the rest,   *)
(* and returns; and if one of them succeeded the loop goes on to its next  *)
(* turn (or, the turns used up, to the exit below the loop).               *)
C5_AllFailedStopsElseNextTurn ==
    [][(/\ pc \in {"streaming", "dispatched"}
        /\ executions' # <<>>
        /\ \A i \in DOMAIN executions' : executions'[i].status = "fulfilled"
        /\ \/ pc = "dispatched" /\ executions' # executions
           \/ /\ pc = "streaming"
              /\ Len(EventsOfType("tool_start")')
                    > Len(EventsOfType("tool_start"))) =>
        LET k == Len(executions')
            failed == {i \in 1..k :
                        "error" \in DOMAIN executions'[i].value.result}
            line(i) == functionCalls'[i].functionCall.name \o ": "
                            \o executions'[i].value.result.error
            shown == [i \in 1..(IF k < 3 THEN k ELSE 3) |-> line(i)]
            text == AllFailedHeader \o "|" \o JoinWith(shown, "|")
                        \o (IF k > 3
                            THEN "|...and " \o ToString(k - 3) \o " more"
                            ELSE "")
            last == history'[Len(history')]
        IN /\ last.role = "user"
           /\ Len(last.parts) = k
           /\ \A i \in 1..k : HasResponse(last.parts[i])
           /\ IF failed = 1..k
              THEN /\ pc' = "returned"
                   /\ turn' = turn
                   /\ Len(EventsOfType("thinking")')
                        = Len(EventsOfType("thinking"))
                   /\ Len(EventsOfType("answer")') = 1
                   /\ events'[Len(events')].type = "answer"
                   /\ events'[Len(events')].text = text
              ELSE /\ turn' = turn + 1
                   /\ \/ /\ pc' = "awaitStream"
                         /\ Len(EventsOfType("thinking")')
                                = Len(EventsOfType("thinking")) + 1
                      \/ pc' = "returned" /\ turn' = MAX_TURNS]_vars

(* C6: when orchestrate has returned, it has emitted exactly one answer    *)
(* event, that event is the last it emitted, and the event's text and      *)
(* toolCalls are the text and toolCalls it returned, from which the REST   *)
(* response is built; until it returns it has emitted no answer.           *)
C6_OneAnswerLastAndReturned ==
    IF pc = "returned"
    THEN /\ Len(EventsOfType("answer")) = 1
         /\ events[Len(events)].type = "answer"
         /\ events[Len(events)].text = result.text
         /\ events[Len(events)].toolCalls = result.toolCalls
         /\ RestResponse(result).response = events[Len(events)].text
         /\ RestResponse(result).toolCalls = events[Len(events)].toolCalls
    ELSE EventsOfType("answer") = <<>>

\* orchestrate returned through the exit below the loop, with an audit
\* trail of MAX_TURNS entries in the answer
C6_ReturnedAtMaxTurns ==
    /\ pc = "returned"
    /\ turn = MAX_TURNS
    /\ Len(result.toolCalls) = MAX_TURNS
    /\ events[Len(events)].type = "answer"

(* C7: no text_chunk event and no answer, emitted or returned, has a text  *)
(* in which the text of a thought part of this request occurs.             *)
C7_ThoughtsStayInside ==
    /\ \A i \in DOMAIN events :
        events[i].type \in {"text_chunk", "answer"} =>
            \A t \in ThoughtTexts : ~Includes(events[i].text, t)
    /\ pc = "returned" => \A t \in ThoughtTexts : ~Includes(result.text, t)

\* the answer was put together from a final candidate that holds a thought,
\* nothing having been streamed
C7_AnswerBesideThought ==
    /\ pc = "returned"
    /\ textChunks = <<>>
    /\ \E i \in DOMAIN candidate : IsThought(candidate[i])
    /\ result.text = Hello

(* C8: a call of a name that is not a key of the dispatch table is settled *)
(* with payload {error: "Unknown tool: <name>"}, info.error the same and   *)
(* durationMs 0; every settled call whose info carries an error has the    *)
(* payload {error: that message}; and what orchestrate throws, if it       *)
(* throws, is the failure of an LLM stream, never one of a tool call.      *)
C8_FailuresBecomeResponses ==
    /\ \A i \in DOMAIN executions :
        executions[i].status = "fulfilled" =>
            LET name == functionCalls[i].functionCall.name
                value == executions[i].value
            IN /\ name \notin DOMAIN DISPATCH =>
                    /\ value.result = [error |-> "Unknown tool: " \o name]
                    /\ "error" \in DOMAIN value.info
                    /\ value.info.error = "Unknown tool: " \o name
                    /\ value.info.durationMs = 0
               /\ "error" \in DOMAIN value.info =>
                    value.result = [error |-> value.info.error]
    /\ pc = "threw" => result.error = LlmErrorMessage

(* C9: a call of a tool of the dispatch table with arguments that violate  *)
(* its schema is settled with an error payload and info.error, and its     *)
(* handler has not touched the store or an actor.                          *)
C9_InvalidArgsRejected ==
    \A i \in DOMAIN executions :
        (/\ executions[i].status = "fulfilled"
         /\ functionCalls[i].functionCall.name \in DOMAIN DISPATCH
         /\ functionCalls[i].functionCall.args = "invalid") =>
            /\ "error" \in DOMAIN executions[i].value.result
            /\ "error" \in DOMAIN executions[i].value.info
            /\ ~executions[i].touched

(* C10: in the events of a dispatched turn, from its tool_start on, a name *)
(* that occurs N > 1 times among the calls has one entry in tool_start,    *)
(* labelled `<label> xN`, no tool_done while calls are in flight, and one  *)
(* tool_done, labelled the same, once all have settled; a name that occurs *)
(* once has one entry, labelled <label>, and one tool_done as soon as its  *)
(* call has settled and none before.                                       *)
C10_BatchedNamesReportOnce ==
    LET s == LastIndexOf("tool_start")
        after == SubSeq(events, s + 1, Len(events))
        names == ToolNames(functionCalls)
        dones(n) == SelectSeq(after, LAMBDA e : e.type = "tool_done"
                                                /\ e.info.name = n)
        broke == pc = "returned" /\ result.text = RepeatLoopText
    IN (s > 0 /\ ~broke) =>
        \A i \in DOMAIN names :
            LET n == names[i]
                N == Count(names, n)
                at == {j \in DOMAIN events[s].tools : events[s].tools[j] = n}
            IN /\ Cardinality(at) = 1
               /\ \A j \in at :
                    events[s].labels[j] =
                        IF N > 1 THEN toolLabel(n) \o " x" \o ToString(N)
                        ELSE toolLabel(n)
               /\ IF N > 1
                  THEN IF pc = "dispatched" THEN dones(n) = <<>>
                       ELSE /\ Len(dones(n)) = 1
                            /\ dones(n)[1].info.label
                                    = toolLabel(n) \o " x" \o ToString(N)
                  ELSE Len(dones(n)) =
                        IF executions[i].status = "fulfilled" THEN 1 ELSE 0

\* the function_response parts of h, in order
RECURSIVE ResponsesIn(_)
ResponsesIn(h) ==
    IF h = <<>> THEN <<>>
    ELSE SelectSeq(Head(h).parts, HasResponse) \o ResponsesIn(Tail(h))

\* the function calls of h that were dispatched, in order: those of a model
\* turn that is followed by a turn of function responses
RECURSIVE DispatchedIn(_)
DispatchedIn(h) ==
    IF Len(h) < 2 THEN <<>>
    ELSE (IF /\ h[1].role = "model"
             /\ h[2].role = "user"
             /\ \E i \in DOMAIN h[2].parts : HasResponse(h[2].parts[i])
          THEN ExtractCalls(h[1].parts) ELSE <<>>) \o DispatchedIn(Tail(h))

(* C11: when orchestrate has returned, toolCalls has one entry for each    *)
(* function call dispatched during the request, in the order of the turns  *)
(* and, within a turn, of the model's calls: entry k carries the name of   *)
(* the k-th dispatched call, and an error exactly when the k-th function   *)
(* response appended to history is an error payload; so its length is the  *)
(* number of function_response parts appended.                             *)
C11_OneInfoPerDispatchedCall ==
    pc = "returned" =>
        LET calls == DispatchedIn(history)
            responses == ResponsesIn(history)
            infos == result.toolCalls
        IN /\ Len(infos) = Len(calls)
           /\ Len(infos) = Len(responses)
           /\ infos = allToolCalls
           /\ \A k \in DOMAIN infos :
                /\ infos[k].name = calls[k].functionCall.name
                /\ infos[k].name = responses[k].functionResponse.name
                /\ "error" \in DOMAIN infos[k] <=>
                        IsErrorPayload(responses[k].functionResponse.response)

\* orchestrate has returned after a turn of two different tools of which the
\* second finished first and the first then failed
C11_SecondCallFinishedFirst ==
    /\ pc = "returned"
    /\ Len(result.toolCalls) >= 2
    /\ "error" \in DOMAIN result.toolCalls[1]
    /\ "error" \notin DOMAIN result.toolCalls[2]
    /\ LET dones == EventsOfType("tool_done")
       IN /\ Len(dones) >= 2
          /\ dones[1].info.name = result.toolCalls[2].name
          /\ dones[2].info.name = result.toolCalls[1].name
          /\ dones[1].info.name # dones[2].info.name

(* C12: once the request timer has fired, which it does only while the     *)
(* handler still awaits orchestrate, the abort signal is tripped, the      *)
(* response is ended and the handler is through; the frames hold exactly   *)
(* one error frame, the timeout message, and it is the last frame: no      *)
(* answer and no session frame is among them, whatever orchestrate goes on *)
(* to emit.                                                                *)
C12_TimeoutEndsWithOneError ==
    aborted =>
        /\ resEnded
        /\ hpc = "done"
        /\ FramesOfType("error") = <<ErrorFrame(TimeoutMessage)>>
        /\ frames[Len(frames)] = ErrorFrame(TimeoutMessage)
        /\ FramesOfType("answer") = <<>>
        /\ FramesOfType("session") = <<>>

\* after the timeout orchestrate went on, emitted further events and an
\* answer, and none of them reached the response
C12_AnswerAfterTimeoutUnseen ==
    /\ aborted
    /\ pc = "returned"
    /\ events[Len(events)].type = "answer"
    /\ Len(events) > Len(frames)
    /\ frames[Len(frames)].type = "error"

(* C13: once the abort signal is tripped orchestrate opens no LLM stream   *)
(* and dispatches no tool call: no step takes it from the call of          *)
(* generateContentStream into a stream, and the function calls of the      *)
(* current turn stay what they were, while executions in flight may        *)
(* settle.                                                                 *)
C13_NoTurnAfterAbort ==
    [][aborted =>
        /\ ~(pc = "awaitStream" /\ pc' = "streaming")
        /\ functionCalls' = functionCalls
        /\ Len(EventsOfType("tool_start")') = Len(EventsOfType("tool_start"))
      ]_vars

(* C14: when the client has closed the connection while the request was in *)
(* flight and orchestrate has then returned, the timer not having fired,   *)
(* the handler has handed the trimmed history to setSession.               *)
C14_SavedThoughClientGone ==
    (clientGone /\ ~aborted /\ pc = "returned") =>
        saved = <<trimHistory(history)>>

(* C15: `connected` is the first frame and the only one of its type, and   *)
(* nothing of orchestrate (no history, no event) exists before it is       *)
(* written; there is at most one session frame, it comes right after an    *)
(* answer frame and is the last frame, and no response holds a session     *)
(* frame and an error frame.                                               *)
C15_ConnectedFirstSessionAfterAnswer ==
    LET sessions_ == {i \in DOMAIN frames : frames[i].type = "session"}
    IN /\ frames = <<>> => pc = "idle" /\ history = <<>> /\ events = <<>>
       /\ frames # <<>> => frames[1] = Connected
       /\ Len(FramesOfType("connected")) <= 1
       /\ Cardinality(sessions_) <= 1
       /\ \A i \in sessions_ :
            /\ i = Len(frames)
            /\ i > 1
            /\ frames[i - 1].type = "answer"
            /\ frames[i] = SessionFrame
       /\ sessions_ # {} => FramesOfType("error") = <<>>

\* a request that used a tool and ended with answer and session
C15_SessionConfirmed ==
    /\ hpc = "done"
    /\ Len(frames) >= 4
    /\ frames[1].type = "connected"
    /\ frames[Len(frames) - 1].type = "answer"
    /\ frames[Len(frames)].type = "session"
    /\ FramesOfType("tool_done") # <<>>

(* C16: the store never holds more than MAX_SESSIONS sessions, and no id   *)
(* twice, whatever the order of arrivals, saves (also of an id evicted     *)
(* while its request was in flight), deletions and sweeps.                 *)
C16_StoreNeverOverfull ==
    /\ Len(sessions) <= MAX_SESSIONS
    /\ Cardinality(Keys(sessions)) = Len(sessions)

\* a request whose session was evicted while it was in flight has saved its
\* history into a store that stays full
C16_EvictedIdSavedAgain ==
    /\ ret.op = "set"
    /\ ~ret.known
    /\ Len(sessions) = MAX_SESSIONS
    /\ uuids > MAX_SESSIONS
    /\ sessions[Len(sessions)].id = ret.sessionId

(* C17: for every id, getSession called now returns null and leaves the    *)
(* store alone when the id is not a key; returns null and removes the      *)
(* session, and only it, when it has been idle longer than SESSION_TTL;    *)
(* and else returns the stored history and sets that session's updatedAt   *)
(* to now, and nothing else.  Every session has createdAt <= updatedAt <=  *)
(* now, and expiry removes no session that was read or written within the  *)
(* last SESSION_TTL.                                                       *)
C17_GetSessionTouchesOrExpires ==
    /\ \A id \in Issued(MaxUuids) \cup Fabricated :
        LET got == getSession(sessions, now, id)
            after == getSessionTouches(sessions, now, id)
            at == {i \in DOMAIN sessions : sessions[i].id = id}
        IN IF at = {}
           THEN got = Null /\ after = sessions
           ELSE \A i \in at :
                IF now - sessions[i].updatedAt > SESSION_TTL
                THEN /\ got = Null
                     /\ after = SelectSeq(sessions, LAMBDA x : x.id # id)
                ELSE /\ got = [history |-> sessions[i].history]
                     /\ Len(after) = Len(sessions)
                     /\ \A j \in DOMAIN sessions :
                            after[j] = IF j = i
                                       THEN [id |-> id,
                                             history |-> sessions[i].history,
                                             createdAt |-> sessions[i].createdAt,
                                             updatedAt |-> now]
                                       ELSE sessions[j]
    /\ \A i \in DOMAIN sessions :
        /\ sessions[i].createdAt <= sessions[i].updatedAt
        /\ sessions[i].updatedAt <= now
        /\ now - sessions[i].updatedAt <= SESSION_TTL =>
                \E j \in DOMAIN evictExpired(sessions, now) :
                    evictExpired(sessions, now)[j] = sessions[i]
    /\ (ret.op = "arrive" /\ ret.got # Null) =>
        \E i \in DOMAIN sessions :
            /\ sessions[i].id = ret.sessionId
            /\ sessions[i].updatedAt = now
            /\ sessions[i].history = ret.got.history

\* a request has just read a session that is older than SESSION_TTL and
\* alive because it was read in time, while another session in the store has
\* expired
C17_ReadKeepsAlive ==
    /\ ret.op = "arrive"
    /\ ret.got # Null
    /\ \E i, j \in DOMAIN sessions :
        /\ sessions[i].id = ret.sessionId
        /\ now - sessions[i].createdAt > SESSION_TTL
        /\ sessions[i].updatedAt = now
        /\ now - sessions[j].updatedAt > SESSION_TTL

C19_HitsAreFresh ==
    (cacheRet.tool # "none" /\ "cacheHit" \in DOMAIN cacheRet
        /\ cacheRet.cacheHit) =>
        LET read == IF cacheRet.tool = "get_hashtag_posts"
                    THEN {"ig_hashtag_posts_meta", "ig_hashtag_posts"}
                    ELSE {cacheRet.coll}
        IN \A d \in cacheRet.from :
            \E coll \in read : cacheRet.at - d.cachedAt < TTL(coll)

(* C20: a writeCache of payload p under a key leaves exactly one document  *)
(* for that key, and it is p with the key's fields and cachedAt stamped    *)
(* now: nothing of what was stored before is left in it.                   *)
C20_WriteLeavesThePayload ==
    [][(cacheRet'.tool = "writeCache" /\ cacheRet' # cacheRet) =>
        FindAny(docs', cacheRet'.coll, cacheRet'.query) =
            {SetFields(SetFields(cacheRet'.query, cacheRet'.data),
                       [cachedAt |-> now])}]_vars

(* C21: when the actor call of a cache-backed tool succeeded and the write *)
(* of what it fetched was rejected by the store, the tool returns the      *)
(* fetched payload and not an error.                                       *)
C21_WriteFailureIsSwallowed ==
    (cacheRet.tool # "none" /\ "writeFailed" \in DOMAIN cacheRet
        /\ cacheRet.writeFailed) => "error" \notin DOMAIN cacheRet

\* the parts of every turn of a history
PartsOf(h) == UNION {Range(h[i].parts) : i \in DOMAIN h}

(* C22: what trimHistory returns for the request's history holds no part   *)
(* with a thought marker, and so does every history handed to setSession.  *)
C22_TrimmedHasNoThought ==
    /\ \A p \in PartsOf(trimHistory(history)) : "thought" \notin DOMAIN p
    /\ \A i \in DOMAIN saved :
        \A p \in PartsOf(saved[i]) : "thought" \notin DOMAIN p

\* a history with a thought part in it was trimmed and saved
C22_SavedAfterThinking ==
    /\ saved # <<>>
    /\ hpc = "done"
    /\ \E p \in PartsOf(history) : IsThought(p)
    /\ Len(saved[1]) = Len(history)

\* field f of a payload is an array of more than n elements
TooLong(resp, f, n) == IsArrayField(resp, f) /\ Len(resp[f].items) > n

\* what C23 asks of the payload out that trimHistory made of the payload in
TrimmedAsAsked(in, out) ==
    /\ ~TooLong(out, "posts", 3)
    /\ ~TooLong(out, "reels", 3)
    /\ ~TooLong(out, "results", 5)
    /\ \A f \in {"posts", "reels"} :
        TooLong(in, f, 3) =>
            /\ out[f] = Str("[" \o ToString(Len(in[f].items)) \o " " \o f
                                \o " - trimmed for context]")
            /\ out.totalFetched =
                    IF "totalFetched" \in DOMAIN in THEN in.totalFetched
                    ELSE Len(in[f].items)
    /\ TooLong(in, "results", 5) =>
            /\ out.results = Arr(SubSeq(in.results.items, 1, 5))
            /\ out._trimmed = TRUE
    /\ DOMAIN in \subseteq DOMAIN out
    /\ DOMAIN out \subseteq DOMAIN in \cup {"totalFetched", "_trimmed"}
    /\ \A k \in DOMAIN in :
        \/ k = "totalFetched"
        \/ k \in {"posts", "reels"} /\ TooLong(in, k, 3)
        \/ k = "results" /\ TooLong(in, k, 5)
        \/ out[k] = in[k]

(* C23: in what trimHistory returns, no function response holds a posts or *)
(* reels array of more than 3 elements or a results array of more than 5:  *)
(* each such posts or reels array of the input has become the placeholder  *)
(* string with its length, totalFetched kept or set to that length, each   *)
(* such results array its first 5 elements with _trimmed: true, whichever  *)
(* of these fields the payload carries; every other field and every        *)
(* function call part is as it was.                                        *)
C23_NoLongArrayLeft ==
    trimOut # <<>> =>
        \A i \in DOMAIN trimOut :
            LET kept == SelectSeq(trimIn[i].parts,
                                  LAMBDA p : "thought" \notin DOMAIN p)
                out == trimOut[i].parts
            IN /\ Len(out) = Len(kept)
               /\ \A j \in DOMAIN out :
                    IF HasResponse(kept[j])
                    THEN /\ out[j].functionResponse.name =
                                kept[j].functionResponse.name
                         /\ TrimmedAsAsked(kept[j].functionResponse.response,
                                           out[j].functionResponse.response)
                    ELSE out[j] = kept[j]

\* the texts of the text_chunk events emitted so far, in order
ChunkTexts ==
    LET evs == EventsOfType("text_chunk")
    IN [i \in DOMAIN evs |-> evs[i].text]

\* orchestrate returned from a turn whose candidate held no function call
ReturnedWithoutCalls ==
    /\ pc = "returned"
    /\ candidate # <<>>
    /\ ExtractCalls(candidate) = <<>>

(* C24: when orchestrate returns from a turn without function calls, the   *)
(* text of its answer is the concatenation, in order, of the text_chunk    *)
(* events of the request if there were any; else that of the non-thought   *)
(* text parts of the final candidate; else "Done.".                        *)
C24_AnswerIsAllThatWasStreamed ==
    ReturnedWithoutCalls =>
        events[Len(events)].text =
            IF ChunkTexts # <<>> THEN JoinWith(ChunkTexts, "")
            ELSE OrElse(VisibleText(candidate), "Done.")

(* C25: of each job at most one execution is in progress; an execution     *)
(* starts only in the step of a timer firing that found the job's guard    *)
(* down, and a firing that found it up starts nothing and leaves the       *)
(* guards and the executions as they are.                                  *)
C25_OneExecutionPerJob ==
    /\ \A job \in Jobs : Len(runs[job]) <= 1
    /\ \A job \in Jobs : Running(job) <=> runs[job] # <<>>
    /\ trigger.job # "none" =>
            IF trigger.did = "skipped"
            THEN runs[trigger.job] # <<>>
            ELSE /\ Len(runs[trigger.job]) = 1
                 /\ runs[trigger.job][1].trace \in {<<>>, <<"call">>}

\* the timer of a job fired while the job's execution slept between two
\* calls, and was skipped
C25_SkippedWhileSleeping ==
    /\ trigger.job # "none"
    /\ trigger.did = "skipped"
    /\ runs[trigger.job] # <<>>
    /\ runs[trigger.job][1].pc = "sleep"
    /\ runs[trigger.job][1].i > 1

\* the number of the first n items of an execution that the loop calls the
\* tool for
DueUpTo(e, n) == Cardinality({j \in DOMAIN e.items : j <= n /\ IsDue(e.items[j])})

(* C26: in the trace of an execution, between any two tool invocations     *)
(* lies a completed sleep, whether the earlier of them succeeded or        *)
(* failed; every failure is followed by its log entry; and the execution   *)
(* has invoked the tool for every due item up to the one it is at.         *)
C26_SleepBetweenAnyTwoCalls ==
    \A job \in Jobs : \A k \in DOMAIN runs[job] :
        LET e == runs[job][k]
            t == e.trace
        IN /\ \A a \in DOMAIN t : \A b \in DOMAIN t :
                (a < b /\ t[a] = "call" /\ t[b] = "call") =>
                    \E c \in a..b : t[c] = "slept"
           /\ \A a \in DOMAIN t :
                t[a] = "failed" => a < Len(t) /\ t[a + 1] = "logged"
           /\ Count(t, "call") = DueUpTo(e, e.i)

\* user and model turns take turns, the first a user turn
Alternates(h) ==
    \A i \in DOMAIN h : h[i].role = IF i % 2 = 1 THEN "user" ELSE "model"

EndsWithModelTurn(h) == h # <<>> /\ h[Len(h)].role = "model"

(* C29: every history handed to setSession alternates user and model       *)
(* turns and ends with a model turn, whichever way orchestrate returned.   *)
C29_SavedEndsWithModelTurn ==
    \A i \in DOMAIN saved :
        Alternates(saved[i]) /\ EndsWithModelTurn(saved[i])

\* The events from the i-th on are in order, k thinking events having come
\* before them and the current turn being in phase "text" (no tool_start
\* yet) or "tools" (after its tool_start).
RECURSIVE InOrder(_, _, _)
InOrder(i, k, phase) ==
    IF i > Len(events) THEN TRUE
    ELSE LET e == events[i]
         IN IF e.type = "thinking"
            THEN e.turn = k + 1 /\ InOrder(i + 1, k + 1, "text")
            ELSE IF e.type = "text_chunk"
            THEN k >= 1 /\ phase = "text" /\ InOrder(i + 1, k, phase)
            ELSE IF e.type = "tool_start"
            THEN k >= 1 /\ phase = "text" /\ InOrder(i + 1, k, "tools")
            ELSE IF e.type = "tool_done"
            THEN k >= 1 /\ phase = "tools" /\ InOrder(i + 1, k, phase)
            ELSE InOrder(i + 1, k, phase)

(* C30: the k-th thinking event carries turn k; every text_chunk,          *)
(* tool_start and tool_done comes after the thinking event of its turn;    *)
(* a turn has at most one tool_start, which comes after every text_chunk   *)
(* of the turn and before every tool_done of the turn.                     *)
C30_EventsOfATurnInOrder == InOrder(1, 0, "text")

\* the first turn started two tools whose tool_done events came in the
\* order the tools finished, the second call first, and the second turn has
\* begun
C30_TwoToolsDoneOutOfOrder ==
    /\ Len(events) = 5
    /\ events[1].type = "thinking"
    /\ events[2].type = "tool_start"
    /\ events[3].type = "tool_done"
    /\ events[4].type = "tool_done"
    /\ events[5].type = "thinking"
    /\ events[5].turn = 2
    /\ Len(functionCalls) = 2
    /\ events[3].info.name = functionCalls[2].functionCall.name
    /\ events[4].info.name = functionCalls[1].functionCall.name
    /\ events[3].info.name # events[4].info.name

(* C27: when a request on an existing session has ended in an error and   *)
(* no other request has been under way on that session since it arrived,  *)
(* the history stored for the session is what it was when the request     *)
(* arrived, also while orchestrate goes on after the error.               *)
C27_ErrorLeavesHistoryAsItWas ==
    \A q \in Requests :
        (/\ reqs[q].outcome = "error"
         /\ reqs[q].known
         /\ ~reqs[q].mixed
         /\ reqs[q].sessionId \in Keys(sessions)) =>
            Stored(reqs[q].sessionId) = reqs[q].base

(* C28: the history a request sends to the LLM is the history of its       *)
(* session when it arrived followed by its own turns, and the history it   *)
(* saves is the trimmed history of its session when it arrived followed    *)
(* by its own turns, whatever other requests on the session do meanwhile.  *)
C28_RequestsDoNotMix ==
    \A q \in Requests :
        /\ reqs[q].sent = reqs[q].own
        /\ reqs[q].outcome = "saved" =>
                reqs[q].persisted =
                    trimHistory(reqs[q].base \o reqs[q].pushed)

\* the sessions of the store that the step has removed
Removed == {i \in DOMAIN sessions : sessions[i].id \notin Keys(sessions')}

\* the sessions of the store that the step has kept
Kept == DOMAIN sessions \ Removed

(* C31: a createSession that finds the store at MAX_SESSIONS removes every *)
(* expired session and, of those left, the one of the least updatedAt; no  *)
(* step removes a live session while it keeps one of a smaller updatedAt,  *)
(* and every session a step removes was expired, or was deleted by         *)
(* deleteSession, or was the least recently updated of a store at          *)
(* MAX_SESSIONS.                                                           *)
C31_EvictionIsLeastRecentlyUsed ==
    [][LET live == {i \in DOMAIN sessions : ~Expired(sessions[i], now)}
           evicted == Removed \cap live
       IN /\ \A i \in evicted :
                \/ ret'.op = "delete" /\ ret'.sessionId = sessions[i].id
                \/ /\ Len(sessions) >= MAX_SESSIONS
                   /\ ret'.op \in {"arrive", "set"}
                   /\ \A j \in Kept :
                        sessions[i].updatedAt <= sessions[j].updatedAt
          /\ (ret'.op = "arrive" /\ ret'.got = Null
                /\ Len(sessions) >= MAX_SESSIONS
                /\ ret'.supplied \notin Keys(sessions)) =>
                /\ \A i \in DOMAIN sessions \ live : i \in Removed
                /\ live # {} => Cardinality(evicted) = 1
                /\ Len(sessions') = Cardinality(Kept) + 1
                /\ \A j \in Kept : \E k \in DOMAIN sessions' :
                        sessions'[k] = sessions[j]]_vars

\* createSession found the store at MAX_SESSIONS and evicted a session
\* inserted after the first, which had been read since and is still there
C31_TouchedSessionOutlivesYounger ==
    /\ ret.op = "arrive"
    /\ ret.full
    /\ Len(sessions) = MAX_SESSIONS
    /\ sessions[1].id = Uuid(1)
    /\ sessions[1].updatedAt > sessions[1].createdAt
    /\ sessions[Len(sessions)].id = ret.sessionId

(* C32: trimming a history that trimHistory returned returns it as it is.  *)
C32_TrimmingTwiceChangesNothing ==
    [][(trimOut # <<>> /\ trimIn' = trimOut) => trimOut' = trimOut]_vars

\* C33: when the calls of a turn have settled, a tool name called N > 1 times
\* with k failed calls and h calls reporting a cache hit has one synthetic
\* tool_done whose label is '<label> xN', whose durationMs is the rounded
\* mean of the N durations, whose cacheHit is (h = N), and which has an
\* error field, equal to 'k/N failed', exactly when k > 0.
SettledInfos(n) ==
    LET mine == SelectSeq([i \in DOMAIN functionCalls |-> i],
                    LAMBDA i : functionCalls[i].functionCall.name = n)
    IN [j \in DOMAIN mine |-> executions[mine[j]].value.info]

SyntheticDoneIs(n, hitAsClaimed) ==
    LET s == LastIndexOf("tool_start")
        after == SubSeq(events, s + 1, Len(events))
        done == SelectSeq(after, LAMBDA e : e.type = "tool_done"
                                             /\ e.info.name = n)
        infos == SettledInfos(n)
        N == Len(infos)
        k == Len(SelectSeq(infos, LAMBDA x : "error" \in DOMAIN x))
        h == Len(SelectSeq(infos,
                    LAMBDA x : "cacheHit" \in DOMAIN x /\ x.cacheHit))
        info == done[1].info
    IN /\ Len(done) = 1
       /\ info.label = toolLabel(n) \o " x" \o ToString(N)
       /\ 2 * N * info.durationMs - N <= 2 * SumMs(infos)
       /\ 2 * SumMs(infos) < 2 * N * info.durationMs + N
       /\ IF hitAsClaimed \/ h > 0
          THEN "cacheHit" \in DOMAIN info /\ info.cacheHit = (h = N)
          ELSE "cacheHit" \notin DOMAIN info
       /\ ("error" \in DOMAIN info) <=> (k > 0)
       /\ "error" \in DOMAIN info => info.error = FailedOf(k, N)

BatchSettled ==
    /\ LastIndexOf("tool_start") > 0
    /\ pc # "dispatched"
    /\ ~(pc = "returned" /\ result.text = RepeatLoopText)

C33_SyntheticDoneSumsUpTheBatch ==
    BatchSettled =>
        \A n \in {functionCalls[i].functionCall.name :
                    i \in DOMAIN functionCalls} :
            Batched(functionCalls, n) => SyntheticDoneIs(n, TRUE)

\* What the code does: cacheHit is (h = N) when h > 0, and the synthetic
\* tool_done has no cacheHit field at all when h = 0.
C33_NoHitNoField ==
    BatchSettled =>
        \A n \in {functionCalls[i].functionCall.name :
                    i \in DOMAIN functionCalls} :
            Batched(functionCalls, n) => SyntheticDoneIs(n, FALSE)

\* two calls of one tool, one of them failed after 8 ms, the other succeeded
\* after 5 ms without reporting a cache hit
C33_OneOfTwoFailed ==
    /\ BatchSettled
    /\ \E i \in DOMAIN events :
        /\ events[i].type = "tool_done"
        /\ Batched(functionCalls, events[i].info.name)
        /\ events[i].info.durationMs = 7
        /\ "cacheHit" \notin DOMAIN events[i].info
        /\ "error" \in DOMAIN events[i].info
        /\ events[i].info.error = "1/2 failed"

(* C34: a step in which an execution of a job ends, at the end of its loop  *)
(* or through the rejection of find(), leaves the job's guard down; the     *)
(* guard is up only while an execution is in progress; and a timer that     *)
(* fires for a job none of whose executions is in progress starts it.       *)
C34_GuardDownWhenRunEnds ==
    [][\A job \in Jobs :
        /\ Len(runs'[job]) < Len(runs[job]) =>
                ended' # "never" /\ ~Running(job)'
        /\ Running(job)' => runs'[job] # <<>>
        /\ (trigger'.job = job /\ runs[job] = <<>>) =>
                /\ trigger'.did = "started"
                /\ runs'[job] # <<>>]_vars

\* after an execution of monitorActivePosts ended in the rejection of
\* find(), the next firing of its timer started the job again
C34_StartedAgainAfterFindThrew ==
    /\ ended = "find threw"
    /\ trigger = [job |-> "monitorActivePosts", did |-> "started"]
    /\ monitorRunning

\* the interval of the claim's table, in hours, for an age in ms
IntervalHours(ageMs) ==
    CASE ageMs < 24 * Hour -> 2
      [] ageMs >= 24 * Hour /\ ageMs < 72 * Hour -> 4
      [] ageMs >= 72 * Hour /\ ageMs < 168 * Hour -> 12
      [] OTHER -> 24

DueAsClaimed(item) == item.since >= IntervalHours(item.age) * Hour

\* the step of an execution of monitorActivePosts in which it invokes the
\* tool for the post `id`
Invokes(id) ==
    \E k \in DOMAIN runs'["monitorActivePosts"] :
        LET e == runs'["monitorActivePosts"][k]
        IN /\ e.pc = "call"
           /\ e.items[e.i].id = id
           /\ \/ k \notin DOMAIN runs["monitorActivePosts"]
              \/ runs["monitorActivePosts"][k].pc # "call"
              \/ runs["monitorActivePosts"][k].i # e.i

\* the posts an execution loads are those whose status is not deleted, and
\* up to the post the loop has come to it has invoked the tool for exactly
\* those of them that are due by the table
LoadsAndInvokesAsClaimed ==
    \A k \in DOMAIN runs'["monitorActivePosts"] :
        LET e == runs'["monitorActivePosts"][k]
            loaded == k \in DOMAIN runs["monitorActivePosts"]
                        /\ runs["monitorActivePosts"][k].pc = "find"
                        /\ e.pc # "find"
        IN /\ loaded =>
                {e.items[j].id : j \in DOMAIN e.items}
                    = {id \in DOMAIN campaignPosts :
                            campaignPosts[id].status # "deleted"}
           /\ e.pc \in {"call", "sleep"} => DueAsClaimed(e.items[e.i])
           /\ Count(e.trace, "call") =
                Cardinality({j \in DOMAIN e.items :
                                j <= e.i /\ DueAsClaimed(e.items[j])})

(* C35: an execution of monitorActivePosts invokes the monitoring tool for  *)
(* a post if and only if the post's status was not deleted and its last     *)
(* check lies at least the interval of the table back; and it never         *)
(* invokes the tool for a post that some monitoring has marked deleted.     *)
C35_DueAndNeverAfterDeleted ==
    [][/\ LoadsAndInvokesAsClaimed
       /\ \A id \in DOMAIN campaignPosts :
            Invokes(id) => ~campaignPosts[id].marked]_vars

\* the first half by itself
C35_InvokedIffDue == [][LoadsAndInvokesAsClaimed]_vars

\* an execution is at its second post, after a first one that was not due
C35_SecondPostAfterSkippedFirst ==
    \E k \in DOMAIN runs["monitorActivePosts"] :
        LET e == runs["monitorActivePosts"][k]
        IN e.pc = "call" /\ e.i = 2 /\ e.trace = <<"call">>

\* what get_user_posts would find for the author of the post at time t
UserPostsCached(all, t) == FindFresh(all, "ig_posts", [username |-> User], t)

\* check_post missed and wrote the post it fetched
CheckPostWroteBack ==
    /\ cacheRet'.tool = "check_post"
    /\ "cacheHit" \in DOMAIN cacheRet'
    /\ ~cacheRet'.cacheHit
    /\ docs' # docs

(* C36: the write-back of check_post leaves get_user_posts for the post's   *)
(* author where it was: when the lookup of get_user_posts found nothing     *)
(* before check_post wrote, it finds nothing after, so that a cache hit of  *)
(* get_user_posts is served from what get_user_posts has fetched.           *)
C36_CheckPostMakesNoUserPostsHit ==
    [][(CheckPostWroteBack /\ UserPostsCached(docs, now) = {}) =>
            UserPostsCached(docs', now') = {}]_vars

\* the same for get_user_reels, which reads another collection
C36_CheckPostMakesNoUserReelsHit ==
    [][(CheckPostWroteBack
            /\ FindFresh(docs, "ig_reels", [username |-> User], now) = {}) =>
        FindFresh(docs', "ig_reels", [username |-> User], now') = {}]_vars

(* C37: once the response has ended nothing more is written to it, neither *)
(* an event nor a :ping; the heartbeat's timer is set exactly while the     *)
(* handler awaits orchestrate, and so has been cleared when the response    *)
(* has ended.                                                               *)
C37_NothingWrittenAfterEnd ==
    [][/\ resEnded => frames' = frames /\ pings' = pings
       /\ resEnded' => heartbeat' = "cleared"
       /\ heartbeat' = "set" <=> hpc' = "awaiting"]_vars

\* the response has ended after a :ping, and orchestrate, still running
\* after the timeout, has emitted events that were not written
C37_EventsDroppedAfterPing ==
    /\ resEnded
    /\ aborted
    /\ pings > 0
    /\ heartbeat = "cleared"
    /\ Len(events) > Len(frames)

(* C38: the thinking event of every turn from the second on carries the    *)
(* message of thinkingMessage for a non-empty audit trail; the message for *)
(* an empty one is never emitted.                                           *)
C38_LaterTurnsProcessToolResults ==
    \A i \in DOMAIN events :
        events[i].type = "thinking" =>
            /\ events[i].message # "Thinking..."
            /\ events[i].turn >= 2 =>
                    /\ events[i].message = "Processing tool results..."
                    /\ allToolCalls # <<>>

\* a third turn was reached, after a turn all of whose calls had failed
C38_ThirdTurnAfterFailedCalls ==
    /\ \E i \in DOMAIN events :
            events[i].type = "thinking" /\ events[i].turn = 3
    /\ \E j \in DOMAIN allToolCalls : "error" \in DOMAIN allToolCalls[j]

Arrived == {q \in Requests : reqs[q].pc # "new"}

(* C39: without the API key every call of orchestrate has thrown, the       *)
(* first and the later ones, with nothing pushed on the history it was      *)
(* given, nothing emitted and nothing sent to the LLM, and no model         *)
(* instance exists; with the key, all calls have used one and the same      *)
(* instance, the only one created.                                          *)
C39_ThrowsBeforeAnythingOrReusesModel ==
    IF apiKey
    THEN /\ created <= 1
         /\ \A q \in Arrived :
                reqs[q].model # 0 /\ reqs[q].model = model
    ELSE /\ model = 0
         /\ created = 0
         /\ \A q \in Arrived :
                /\ reqs[q].pc = "threw"
                /\ reqs[q].outcome = "error"
                /\ reqs[q].pushed = <<>>
                /\ reqs[q].emitted = <<>>
                /\ reqs[q].sent = <<>>
                /\ heap[reqs[q].ref] = reqs[q].base

\* without the key, a second call on the session the first one created
\* has thrown too, and the session's history is still empty
C39_SecondCallThrewToo ==
    /\ ~apiKey
    /\ \E q \in Arrived : \E r \in Arrived \ {q} :
            /\ reqs[q].sessionId = reqs[r].sessionId
            /\ reqs[r].known
            /\ reqs[r].pc = "threw"
            /\ heap[reqs[r].ref] = <<>>

====
